---- MODULE Spec2Model ----
(***************************************************************************)
(* Diabot-V2 batch scripts: the per-item batch loops of                    *)
(*   scripts/benchmarking_first_method_scripts/benchmark-finetuned-model.py *)
(*   scripts/benchmark_models.py                                           *)
(*   translate_finetuning_data.py                                          *)
(*   scripts/generate_wrong_answers.py                                     *)
(* together with their remote-call gateways (call_local_llama,             *)
(* call_openrouter, translate_text), the output file they rewrite after    *)
(* every item, and the operating-system events a batch job is exposed to:  *)
(* the process being killed and the script being started again.            *)
(*                                                                         *)
(* Texts are sequences of one-character strings.  The remote service is    *)
(* deterministic per item: svc[i] is the sequence of outcomes the service  *)
(* gives to the successive HTTP attempts made for item i, the same in      *)
(* every invocation of the script.  The input files are well formed:       *)
(* every column the scripts read is there and every cell of it is text.    *)
(* The file system accepts every write; a write is not atomic              *)
(* (open(..., 'w') truncates, the dump follows).                           *)
(***************************************************************************)
EXTENDS Integers, Sequences, FiniteSets, TLC

\* ------------------------------------------------------------- bounds
\* rows of the benchmark CSV
NumItems == 2
\* rows of the translation CSV
NumRows == 3
\* the translations of one run that fail for good
MaxFailedCalls == 1

\* -------------------------------------------------- program constants
\* call_local_llama(prompt, model_name="local-gguf", max_retries=2)
LocalMaxRetries == 2
\* translate_text: max_retries = 3
TranslateMaxRetries == 3
\* time.sleep(3) between the attempts of call_local_llama
RetryDelay == 3
\* time.sleep(3) after a RequestException in translate_text
RequestErrorDelay == 3
\* time.sleep(2) after an unexpected error in translate_text
UnexpectedDelay == 2
\* translate_dataset(self, batch_size=2, ...)
batch_size == 2

\* ------------------------------------------------------------- texts
Whitespace == {" ", "\n", "\t"}

UpperCase == <<"A","B","C","D","E","F","G","H","I","J","K","L","M",
               "N","O","P","Q","R","S","T","U","V","W","X","Y","Z">>
LowerCase == <<"a","b","c","d","e","f","g","h","i","j","k","l","m",
               "n","o","p","q","r","s","t","u","v","w","x","y","z">>
Digits == {"0","1","2","3","4","5","6","7","8","9"}

\* str.lower() and str.upper() on one character
Lower(c) ==
    IF \E i \in 1..26 : UpperCase[i] = c
    THEN LowerCase[CHOOSE i \in 1..26 : UpperCase[i] = c]
    ELSE c
Upper(c) ==
    IF \E i \in 1..26 : LowerCase[i] = c
    THEN UpperCase[CHOOSE i \in 1..26 : LowerCase[i] = c]
    ELSE c

\* \w of the re module
IsWord(c) ==
    \/ \E i \in 1..26 : UpperCase[i] = c \/ LowerCase[i] = c
    \/ c \in Digits
    \/ c = "_"

\* str.strip()
RECURSIVE LStrip(_)
LStrip(t) ==
    IF t # <<>> /\ Head(t) \in Whitespace THEN LStrip(Tail(t)) ELSE t
RECURSIVE RStrip(_)
RStrip(t) ==
    IF t # <<>> /\ t[Len(t)] \in Whitespace
    THEN RStrip(SubSeq(t, 1, Len(t) - 1))
    ELSE t
Strip(t) == RStrip(LStrip(t))

\* ------------------------------------------- extract_answer_letter
CharAt(t, p) == IF p \in 1..Len(t) THEN t[p] ELSE ""

\* \b between positions p-1 and p
BoundaryBefore(t, p) == IsWord(CharAt(t, p - 1)) # IsWord(CharAt(t, p))

\* [ABCD] under re.IGNORECASE
IsOptionLetter(c) == Lower(c) \in {"a", "b", "c", "d"}

\* a literal (given in lower case) matched at p under re.IGNORECASE:
\* the position after it, or 0
MatchLit(t, p, lit) ==
    IF /\ p >= 1
       /\ p + Len(lit) - 1 <= Len(t)
       /\ \A k \in 1..Len(lit) : Lower(t[p + k - 1]) = lit[k]
    THEN p + Len(lit)
    ELSE 0

\* \s* at p: the position of the first character that is no whitespace
RECURSIVE SkipWs(_, _)
SkipWs(t, p) ==
    IF p <= Len(t) /\ t[p] \in Whitespace THEN SkipWs(t, p + 1) ELSE p

\* \s+ at p: the position after the whitespace, or 0
WsPlus(t, p) ==
    IF p >= 1 /\ p <= Len(t) /\ t[p] \in Whitespace THEN SkipWs(t, p) ELSE 0

\* ([ABCD])\b at p: p when it matches, or 0
LetterThenBoundary(t, p) ==
    IF p >= 1 /\ IsOptionLetter(CharAt(t, p)) /\ BoundaryBefore(t, p + 1)
    THEN p
    ELSE 0

\* literal, then \s+ : the position after both, or 0
LitWs(t, p, lit) == WsPlus(t, MatchLit(t, p, lit))

\* r'(?:answer|response):\s*([ABCD])\b' matched at start i: the position of
\* the captured letter, or 0
Pattern1At(t, i) ==
    LET a == MatchLit(t, i, <<"a","n","s","w","e","r",":">>)
        r == MatchLit(t, i, <<"r","e","s","p","o","n","s","e",":">>)
        q == IF a # 0 THEN a ELSE r
    IN  IF q = 0 THEN 0 ELSE LetterThenBoundary(t, SkipWs(t, q))

\* r'(?:the\s+)?(?:correct\s+)?answer\s+is\s+([ABCD])\b' at start i
Pattern2At(t, i) ==
    LET the == LitWs(t, i, <<"t","h","e">>)
        j1  == IF the # 0 THEN the ELSE i
        cor == LitWs(t, j1, <<"c","o","r","r","e","c","t">>)
        j2  == IF cor # 0 THEN cor ELSE j1
        ans == LitWs(t, j2, <<"a","n","s","w","e","r">>)
        is  == LitWs(t, ans, <<"i","s">>)
    IN  LetterThenBoundary(t, is)

\* r'(?:i\s+choose\s+|i\s+select\s+)([ABCD])\b' at start i
Pattern3At(t, i) ==
    LET sp  == LitWs(t, i, <<"i">>)
        ch  == LitWs(t, sp, <<"c","h","o","o","s","e">>)
        se  == LitWs(t, sp, <<"s","e","l","e","c","t">>)
    IN  LetterThenBoundary(t, IF ch # 0 THEN ch ELSE se)

\* r'\b([ABCD])\s*(?:is\s+correct|is\s+the\s+answer)' at start i
Pattern4At(t, i) ==
    IF i <= Len(t) /\ BoundaryBefore(t, i) /\ IsOptionLetter(CharAt(t, i))
    THEN LET is  == LitWs(t, SkipWs(t, i + 1), <<"i","s">>)
             cor == MatchLit(t, is, <<"c","o","r","r","e","c","t">>)
             the == LitWs(t, is, <<"t","h","e">>)
             ans == MatchLit(t, the, <<"a","n","s","w","e","r">>)
         IN  IF cor # 0 \/ ans # 0 THEN i ELSE 0
    ELSE 0

\* r'\b([ABCD])\b' at start i
StandaloneAt(t, i) ==
    IF BoundaryBefore(t, i) THEN LetterThenBoundary(t, i) ELSE 0

PatternAt(n, t, i) ==
    CASE n = 1 -> Pattern1At(t, i)
      [] n = 2 -> Pattern2At(t, i)
      [] n = 3 -> Pattern3At(t, i)
      [] n = 4 -> Pattern4At(t, i)
      [] OTHER -> StandaloneAt(t, i)

\* re.search: the leftmost start at which pattern n matches; the captured
\* letter's position, or 0 when there is no match
Search(n, t) ==
    LET hits == {i \in 1..Len(t) : PatternAt(n, t, i) # 0}
    IN  IF hits = {} THEN 0
        ELSE PatternAt(n, t, CHOOSE i \in hits : \A j \in hits : i <= j)

\* seeded fault: any letter of the text is looked for before the labels
extract_answer_letter_unordered(response_text) ==
    LET s  == Strip(response_text)
        m2 == {n \in 1..4 : Search(n, response_text) # 0}
        n2 == CHOOSE n \in m2 : \A k \in m2 : n <= k
        m3 == Search(5, response_text)
    IN  IF response_text = <<>> THEN "None"
        ELSE IF LetterThenBoundary(s, 1) # 0 THEN Upper(s[1])
        ELSE IF m3 # 0 THEN Upper(response_text[m3])
        ELSE IF m2 # {} THEN Upper(response_text[Search(n2, response_text)])
        ELSE "None"

\* the letter A-D found in the response, upper-cased, or "None"
extract_answer_letter(response_text) ==
    LET s  == Strip(response_text)
        m2 == {n \in 1..4 : Search(n, response_text) # 0}
        n2 == CHOOSE n \in m2 : \A k \in m2 : n <= k
        m3 == Search(5, response_text)
    IN  IF response_text = <<>> THEN "None"
        ELSE IF LetterThenBoundary(s, 1) # 0 THEN Upper(s[1])
        ELSE IF m2 # {} THEN Upper(response_text[Search(n2, response_text)])
        ELSE IF m3 # 0 THEN Upper(response_text[m3])
        ELSE "None"

\* ------------------- get_model_answer of benchmark_models.py (OpenRouter)
Contains(t, c) == \E p \in 1..Len(t) : t[p] = c

\* the first letter of A, B, C, D that occurs in the response in either case
or_get_model_answer(response) ==
    LET found == {k \in 1..4 : Contains(response, UpperCase[k])
                               \/ Contains(response, LowerCase[k])}
    IN  IF response = <<>> THEN "None"
        ELSE IF found # {}
        THEN UpperCase[CHOOSE k \in found : \A j \in found : k <= j]
        ELSE "None"

\* ------------------------------------------ clean_translation_response
\* prefixes_to_remove, lower-cased as the comparison lower-cases them
prefixes_to_remove ==
    << <<"a","n","s","w","e","r",":">>,
       <<"r","é","p","o","n","s","e",":">>,
       <<"t","h","e"," ","a","n","s","w","e","r"," ","i","s",":">>,
       <<"t","o"," ","a","n","s","w","e","r"," ","y","o","u","r"," ","q","u","e","s","t","i","o","n",":">>,
       <<"h","e","r","e"," ","i","s"," ","t","h","e"," ","t","r","a","n","s","l","a","t","i","o","n",":">>,
       <<"t","r","a","n","s","l","a","t","i","o","n",":">>,
       <<"t","r","a","d","u","c","t","i","o","n",":">>,
       <<"t","h","e"," ","t","r","a","n","s","l","a","t","i","o","n"," ","i","s",":">>,
       <<"h","e","r","e","'","s"," ","t","h","e"," ","t","r","a","n","s","l","a","t","i","o","n",":">>,
       <<"t","h","e"," ","t","r","a","n","s","l","a","t","e","d"," ","t","e","x","t"," ","i","s",":">>,
       <<"e","n","g","l","i","s","h"," ","t","r","a","n","s","l","a","t","i","o","n",":">>,
       <<"i","n"," ","e","n","g","l","i","s","h",":">> >>

\* text_clean.lower().startswith(prefix.lower())
StartsWithCI(t, prefix) == MatchLit(t, 1, prefix) # 0

clean_translation_response(text) ==
    LET text_clean == Strip(text)
        hits == {k \in 1..Len(prefixes_to_remove) :
                    StartsWithCI(text_clean, prefixes_to_remove[k])}
        first == CHOOSE k \in hits : \A j \in hits : k <= j
    IN  IF hits = {} THEN text_clean
        ELSE Strip(SubSeq(text_clean, Len(prefixes_to_remove[first]) + 1,
                          Len(text_clean)))

\* ----------------------------------------------------------- gateway
\* What one HTTP attempt meets:
\*   ok       a success status whose JSON body carries the text field
\*   nofield  a success status whose JSON body lacks it (no 'content', no
\*            'choices'): an application-level error
\*   timeout  requests.exceptions.Timeout
\*   connerr  requests.exceptions.ConnectionError (not a timeout)
\*   httperr  raise_for_status() raising HTTPError (status >= 400)
\*   silent   the service accepts the request and never answers
Ok(t) == [kind |-> "ok", text |-> t]
Fault(k) == [kind |-> k, text |-> <<>>]
FaultKinds == {"nofield", "timeout", "connerr", "httperr"}

\* a Python value that is a str or None
None == [none |-> TRUE, text |-> <<>>]
Some(t) == [none |-> FALSE, text |-> t]
\* Python truthiness of such a value
Truthy(v) == ~v.none /\ v.text # <<>>

\* What the body of one loop iteration does with the attempt's outcome:
\* ret = the function returns now (with value); otherwise it sleeps `sleep`
\* seconds and the loop goes on.  `attempt` counts from 0 as range() does.
Step(ret, value, sleep) == [ret |-> ret, value |-> value, sleep |-> sleep]

\* seeded fault: the retry loop does not count its attempts
call_local_llama_unbounded(attempt, o) ==
    CASE o.kind = "ok"      -> Step(TRUE, Some(Strip(o.text)), 0)
      [] o.kind = "nofield" -> Step(TRUE, None, 0)
      [] o.kind = "connerr" -> Step(TRUE, None, 0)
      [] OTHER              -> Step(FALSE, None, RetryDelay)

\* seeded fault: a connection error is retried like a timeout
call_local_llama_retry_connerr(attempt, o) ==
    LET last == ~(attempt < LocalMaxRetries - 1)
    IN  CASE o.kind = "ok"      -> Step(TRUE, Some(Strip(o.text)), 0)
          [] o.kind = "nofield" -> Step(TRUE, None, 0)
          [] OTHER              -> IF last THEN Step(TRUE, None, 0)
                                   ELSE Step(FALSE, None, RetryDelay)

\* call_local_llama: one iteration of `for attempt in range(max_retries)`;
\* falling out of the last iteration reaches the final `return None`
call_local_llama(attempt, o) ==
    LET last == ~(attempt < LocalMaxRetries - 1)
    IN  CASE o.kind = "ok"      -> Step(TRUE, Some(Strip(o.text)), 0)
          [] o.kind = "nofield" -> Step(TRUE, None, 0)
          [] o.kind = "connerr" -> Step(TRUE, None, 0)
          [] OTHER              -> IF last THEN Step(TRUE, None, 0)
                                   ELSE Step(FALSE, None, RetryDelay)

\* seeded fault: a missing field ends translate_text at once
translate_text_noretry(attempt, o) ==
    LET last == (attempt = TranslateMaxRetries - 1)
    IN  CASE o.kind = "ok" ->
               Step(TRUE, Some(clean_translation_response(Strip(o.text))), 0)
          [] o.kind = "nofield" -> Step(TRUE, None, 0)
          [] OTHER ->
               IF last THEN Step(TRUE, None, 0)
               ELSE Step(FALSE, None, RequestErrorDelay)

\* translate_text: one iteration of `for attempt in range(max_retries)`
translate_text(attempt, o) ==
    LET last == (attempt = TranslateMaxRetries - 1)
    IN  CASE o.kind = "ok" ->
               Step(TRUE, Some(clean_translation_response(Strip(o.text))), 0)
          [] o.kind = "nofield" ->
               IF last THEN Step(TRUE, None, 0)
               ELSE Step(FALSE, None, UnexpectedDelay)
          [] OTHER ->
               IF last THEN Step(TRUE, None, 0)
               ELSE Step(FALSE, None, RequestErrorDelay)

\* call_openrouter: a single request, every exception answered by None
call_openrouter(attempt, o) ==
    IF o.kind = "ok" THEN Step(TRUE, Some(Strip(o.text)), 0)
    ELSE Step(TRUE, None, 0)

\* requests.post(..., timeout=...): the call carries a timeout
\* (benchmark-finetuned-model.py 54, translate_finetuning_data.py 87) or
\* none (benchmark_models.py 49-53)
HasTimeout(fn) == fn \in {"call_local_llama", "translate_text"}
\* a service that never answers: requests.post without a timeout never
\* returns
Blocks(fn, o) == o.kind = "silent" /\ ~HasTimeout(fn)
\* what requests.post raises or returns: with a timeout, silence ends as
\* requests.exceptions.Timeout
Observed(o) == IF o.kind = "silent" THEN Fault("timeout") ELSE o

GatewayStep(fn, attempt, o) ==
    CASE fn = "call_local_llama" -> call_local_llama(attempt, o)
      [] fn = "translate_text"   -> translate_text(attempt, o)
      [] OTHER                   -> call_openrouter(attempt, o)

\* ------------------------------------------------------------- state
VARIABLES
    \* inputs, fixed for the whole behaviour
    prog,             \* the script that is run
    gw_fn,            \* the gateway function it calls
    ready,            \* the health check passes / the API key is set
    rows,             \* the input CSV: the id of each row, in file order
    correct_answers,  \* the reference JSON: id -> correct option letter
    svc,              \* per gateway call, the outcomes of its attempts
    input_has_wrong_answers, \* INPUT_CSV has the Wrong_Answer_ columns
    api_key,          \* OPENROUTER_API_KEY is set in the environment
    args_test,        \* the command line carries --test
    \* the operating system
    invocation,       \* 1: first start of the script; 2: started again
    disk,             \* the benchmark output files: timestamp -> content
    csv,              \* output_csv of the translator
    \* the process's memory
    pc,
    idx,              \* the row at hand (1-based)
    model_answers,
    successful_answers,
    timestamp,        \* names output_json
    df,               \* the columns the script fills, row by row
    successful_translations,
    failed_translations,
    batch_i,          \* `i` of the batch loop (0-based, as in the code)
    phase,            \* which inner loop runs: "question" or "answer"
    gw_attempt,       \* `attempt` of the gateway's retry loop
    gw_log,           \* the attempts of the current gateway call
    gw_result,        \* what the gateway call returned
    questions,        \* results["questions"] of the free-answer benchmarks
    cur_answer,       \* model_answer of the free-answer item at hand
    cur_evaluation,   \* evaluation of the free-answer item at hand
    slept,            \* the delay has been waited since the last request
    \* the memory of the data-preparation tools
    randomized_df,    \* randomize_answers: the table with columns A to D
    use_openrouter,   \* process_for_finetuning: the argument of that name
    loaded,           \* ... the questions as load_correct_answers read them
    all_answers,      \* ... `answers`: the questions, rewritten in place
    texts,            \* generate_embeddings: the chunks, by their number
    cur_batch_size,   \* ... `batch_size`, as the except branch reduces it
    range_step,       \* ... the step range() took when the loop began
    all_embeddings,   \* ... per embedding, the chunk it was computed from
    call_stack,       \* store_in_chroma: the frames of its nested calls
    collection,       \* ... the chunks the ChromaDB collection holds
    stored_ever,      \* ... history: the chunks an upsert has stored
    reported,         \* ... success_count as the outermost call prints it
    full_answer,      \* summarize_answer: its argument `answer`
    summary,          \* ... what it returns
    split_text,       \* split_by_fixed_size: its argument `text`
    chunk_size,       \* ... its argument of that name
    overlap,          \* ... its argument of that name
    start,            \* ... its local of that name
    chunks,           \* ... the chunk texts appended so far
    \* history
    calls,            \* the calls issued by this invocation, in order
    returned,         \* what each of them returned, once it has
    completed_before, \* the calls the killed invocation had completed
    killed_writing,   \* the kill came while the output file was open
    signal_at         \* where the script stood when SIGINT came ("": never)

inputs == <<prog, gw_fn, ready, rows, correct_answers, svc,
            input_has_wrong_answers, api_key, args_test>>
benchmark_memory == <<model_answers, successful_answers, timestamp>>
translate_memory == <<df, successful_translations, failed_translations,
                      batch_i, phase>>
gateway_memory == <<gw_attempt, gw_log, gw_result>>
free_memory == <<questions, cur_answer, cur_evaluation, slept>>
tool_memory == <<randomized_df, use_openrouter, loaded, all_answers,
                texts, cur_batch_size, range_step, all_embeddings,
                call_stack, collection, stored_ever, reported,
                full_answer, summary,
                split_text, chunk_size, overlap, start, chunks>>
memory == <<idx, benchmark_memory, translate_memory, gateway_memory, calls,
            returned>>
os == <<invocation, completed_before, killed_writing, signal_at>>
vars == <<inputs, os, disk, csv, pc, memory, free_memory, tool_memory>>

\* ------------------------------------------------------ output files
EmptyDict == [k \in {} |-> "A"]
DictSet(d, k, v) == [x \in DOMAIN d \cup {k} |-> IF x = k THEN v ELSE d[x]]

NoEvaluation == [total_questions |-> 0, correct_answers |-> 0]

File(kind, ts, answers, successful, total, evaluation) ==
    [kind |-> kind, timestamp |-> ts, answers |-> answers,
     successful |-> successful, total |-> total, evaluation |-> evaluation,
     metrics |-> {}]
\* the file with the keys of its aggregate figures
WithMetrics(f, keys) == [f EXCEPT !.metrics = keys]
\* no such file
Absent == File("absent", 0, EmptyDict, 0, 0, NoEvaluation)
\* the file just after open(output_json, 'w'): zero bytes
Truncated0 == File("empty", 0, EmptyDict, 0, 0, NoEvaluation)
\* a file holding only the first part of a dump
Partial == File("partial", 0, EmptyDict, 0, 0, NoEvaluation)
\* json.load would succeed on it
Parseable(f) == f.kind \in {"answers", "progress", "final"}

\* datetime.now().strftime("%Y%m%d_%H%M%S"): the second the run starts in
Timestamps == 1..2

\* a float that is a quotient of two integers
Quotient(num, den) == [num |-> num, den |-> den]

\* seeded fault: an id without a recorded answer counts as correct
RECURSIVE CountCorrect_lenient(_, _, _)
CountCorrect_lenient(answers, reference, todo) ==
    IF todo = {} THEN 0
    ELSE LET question_id == CHOOSE q \in todo : \A r \in todo : q <= r
             hit == question_id \notin DOMAIN answers
                       \/ answers[question_id] = reference[question_id]
         IN  (IF hit THEN 1 ELSE 0)
                + CountCorrect_lenient(answers, reference, todo \ {question_id})

\* `for question_id, correct_option in correct_answers.items():` over the
\* ids still to visit
RECURSIVE CountCorrect(_, _, _)
CountCorrect(answers, reference, todo) ==
    IF todo = {} THEN 0
    ELSE LET question_id == CHOOSE q \in todo : \A r \in todo : q <= r
             hit == /\ question_id \in DOMAIN answers
                    /\ answers[question_id] = reference[question_id]
         IN  (IF hit THEN 1 ELSE 0)
                + CountCorrect(answers, reference, todo \ {question_id})

\* seeded fault: evaluate_model with the lenient count
evaluate_model_lenient(answers, reference) ==
    LET total == Cardinality(DOMAIN reference)
        correct == CountCorrect_lenient(answers, reference, DOMAIN reference)
    IN  [total_questions |-> total,
         correct_answers |-> correct,
         accuracy |-> IF total > 0 THEN Quotient(correct * 100, total)
                      ELSE Quotient(0, 1)]

\* evaluate_model
evaluate_model(answers, reference) ==
    LET total == Cardinality(DOMAIN reference)
        correct == CountCorrect(answers, reference, DOMAIN reference)
    IN  [total_questions |-> total,
         correct_answers |-> correct,
         accuracy |-> IF total > 0 THEN Quotient(correct * 100, total)
                      ELSE Quotient(0, 1)]

\* what the per-item save dumps
\*   benchmark_models.py: json.dump(model_answers, f, ...)
\*   benchmark-finetuned-model.py: json.dump(progress_data, f, ...)
progress_data ==
    IF prog = "benchmark_openrouter"
    THEN File("answers", 0, model_answers, 0, 0, NoEvaluation)
    ELSE WithMetrics(File("progress", timestamp, model_answers,
                          successful_answers, Len(rows), NoEvaluation),
                     {"progress", "processing_time_seconds"})

\* what the final save dumps (`results`)
results ==
    WithMetrics(
        File("final", timestamp, model_answers,
             IF prog = "benchmark_openrouter" THEN 0 ELSE successful_answers,
             IF prog = "benchmark_openrouter" THEN 0 ELSE Len(rows),
             evaluate_model(model_answers, correct_answers)),
        IF prog = "benchmark_openrouter"
        THEN {"evaluation", "processing_time_seconds"}
        ELSE {"evaluation", "processing_time_seconds", "successful_responses",
              "total_questions", "success_rate"})

\* output_csv: the table that df.to_csv / english_df.to_csv writes
Csv(kind, table) == [kind |-> kind, table |-> table]
CsvAbsent == Csv("absent", <<>>)
CsvEmpty == Csv("empty", <<>>)
CsvPartial == Csv("partial", <<>>)

\* the source texts of row k of the translation input
DigitOf == <<"1","2","3","4","5","6","7","8","9">>
source_question(k) == <<"Q", DigitOf[k]>>
source_answer(k) == <<"R", DigitOf[k]>>

EnglishRow(q, a) == [question_english |-> q, model_answer_english |-> a]

\* ------------------------------------------------------------ inputs
Ids == 1..NumItems

\* the response texts of the remote model
TextB == <<"B">>
TextC == <<"T","h","e"," ","a","n","s","w","e","r"," ","i","s"," ","C">>
TextNoLetter == <<"?">>
TextBlank == <<" ">>
\* translations, the second one with a boilerplate prefix
TextPlain == <<"h","i">>
TextPrefixed == <<"A","n","s","w","e","r",":"," ","o","k">>

\* how the local llama.cpp server may treat the attempts made for one item
LocalScripts ==
    { <<Ok(TextB)>>,
      <<Fault("timeout"), Ok(TextC)>>,
      <<Fault("timeout"), Fault("httperr")>> }

\* how OpenRouter may treat the single attempt of call_openrouter
OpenRouterScripts ==
    { <<Ok(TextB)>>, <<Fault("httperr")>>, <<Ok(TextNoLetter)>> }

\* how OpenRouter may treat the attempts of translate_text for call c:
\* a question (odd c) is translated at once or never, an answer (even c)
\* after one application-level error or never
NeverTranslated == <<Fault("timeout"), Fault("connerr"), Fault("httperr")>>
TranslateScripts(c) ==
    { IF c % 2 = 1 THEN <<Ok(TextPlain)>>
      ELSE <<Fault("nofield"), Ok(TextPrefixed)>>,
      NeverTranslated }

\* every outcome one attempt can meet (the gateway called on its own)
AnyOutcome ==
    {Ok(t) : t \in {TextB, TextPrefixed, TextBlank}}
        \cup {Fault(k) : k \in FaultKinds}

\* a list of wrong answers, numbered in the two ways, and a single line
TextNumbered == <<"1",".", " ","u","\n","2",")"," ","v","\n","\n","w">>
TextOneLine == <<"1","."," ","u"," ">>

\* how OpenRouter may treat the single attempt made for a row of process_csv
ProcessCsvScripts ==
    { <<Ok(TextNumbered)>>, <<Fault("timeout")>>, <<Ok(TextOneLine)>> }

ScriptsOf(p) ==
    CASE p = "benchmark_local"      -> LocalScripts
      [] p = "benchmark_openrouter" -> OpenRouterScripts
      [] OTHER                      -> ProcessCsvScripts

GatewayOf(p) ==
    CASE p = "benchmark_local" -> "call_local_llama"
      [] p = "translate"       -> "translate_text"
      [] OTHER                 -> "call_openrouter"

\* the reference holds the letter B for the ids it knows
References(n) == {[q \in S |-> "B"] : S \in SUBSET (1..n)}

\* the id columns: the ids all differ, or the last row repeats the first id
RowSeqs ==
    {[k \in 1..n |-> k] : n \in 1..NumItems}
        \cup {[k \in 1..n |-> IF k = n THEN 1 ELSE k] : n \in 2..NumItems}

\* ---------------------------------------------------------- Init
FreshMemory ==
    /\ idx = 0
    /\ model_answers = EmptyDict
    /\ successful_answers = 0
    /\ timestamp = 0
    /\ df = <<>>
    /\ successful_translations = 0
    /\ failed_translations = 0
    /\ batch_i = 0
    /\ phase = "question"
    /\ gw_attempt = 0
    /\ gw_log = <<>>
    /\ gw_result = None
    /\ calls = <<>>
    /\ returned = <<>>
    /\ questions = EmptyDict
    /\ cur_answer = None
    /\ cur_evaluation = None
    /\ slept = FALSE
    /\ randomized_df = <<>>
    /\ use_openrouter = FALSE
    /\ loaded = <<>>
    /\ all_answers = <<>>
    /\ texts = <<>>
    /\ cur_batch_size = 0
    /\ range_step = 0
    /\ all_embeddings = <<>>
    /\ call_stack = <<>>
    /\ collection = {}
    /\ stored_ever = {}
    /\ reported = 0
    /\ full_answer = <<>>
    /\ summary = <<>>
    /\ split_text = <<>>
    /\ chunk_size = 0
    /\ overlap = 0
    /\ start = 0
    /\ chunks = <<>>

InitOS ==
    /\ invocation = 1
    /\ disk = [t \in Timestamps |-> Absent]
    /\ csv = CsvAbsent
    /\ completed_before = {}
    /\ killed_writing = FALSE
    /\ signal_at = ""

InitBenchmark ==
    /\ prog \in {"benchmark_local", "benchmark_openrouter"}
    /\ gw_fn = GatewayOf(prog)
    /\ ready \in BOOLEAN
    /\ rows \in RowSeqs
    /\ correct_answers \in References(Len(rows))
    /\ svc \in [1..Len(rows) -> ScriptsOf(prog)]
    /\ input_has_wrong_answers = FALSE
    /\ api_key = ready
    /\ args_test = FALSE
    /\ pc = "start"
    /\ FreshMemory
    /\ InitOS

InitTranslate ==
    /\ prog = "translate"
    /\ gw_fn = GatewayOf(prog)
    /\ ready \in BOOLEAN
    /\ \E n \in 1..NumRows :
          /\ rows = [k \in 1..n |-> k]
          /\ svc \in {s \in [1..(2 * n) ->
                                UNION {TranslateScripts(c) : c \in 1..2}] :
                          /\ \A c \in 1..(2 * n) : s[c] \in TranslateScripts(c)
                          /\ Cardinality({c \in 1..(2 * n) :
                                              s[c] = NeverTranslated})
                                 <= MaxFailedCalls}
    /\ correct_answers = EmptyDict
    /\ input_has_wrong_answers = FALSE
    /\ api_key = ready
    /\ args_test = FALSE
    /\ pc = "start"
    /\ FreshMemory
    /\ InitOS

InitProcessCsv ==
    /\ prog = "process_csv"
    /\ gw_fn = GatewayOf(prog)
    /\ ready \in BOOLEAN
    /\ \E n \in 1..NumItems :
          /\ rows = [k \in 1..n |-> k]
          /\ svc \in [1..n -> ScriptsOf(prog)]
    /\ correct_answers = EmptyDict
    /\ input_has_wrong_answers \in BOOLEAN
    /\ api_key = ready
    /\ args_test = FALSE
    /\ pc = "start"
    /\ FreshMemory
    /\ InitOS

\* a single gateway call on its own, against a service that may do anything
InitGateway ==
    /\ prog = "gateway"
    /\ gw_fn \in {"call_local_llama", "call_openrouter", "translate_text"}
    /\ ready = TRUE
    /\ rows = <<1>>
    /\ correct_answers = EmptyDict
    /\ svc = <<>>
    /\ input_has_wrong_answers = FALSE
    /\ api_key = ready
    /\ args_test = FALSE
    /\ pc = "gateway"
    /\ FreshMemory
    /\ InitOS

Init == InitBenchmark \/ InitTranslate \/ InitProcessCsv \/ InitGateway

\* ------------------------------------------------ the gateway's loop
\* the key of the call at hand in svc: the row, or the row's field
CallKey ==
    IF prog = "translate"
    THEN (IF phase = "question" THEN 2 * idx - 1 ELSE 2 * idx)
    ELSE idx

\* the service's answer to attempt number a of the call at hand; past the
\* end of its script the service goes on as it ended
ServiceOutcome(a) ==
    LET script == svc[CallKey]
    IN  script[IF a <= Len(script) THEN a ELSE Len(script)]

AttemptOutcomes ==
    IF prog = "gateway" THEN AnyOutcome ELSE {ServiceOutcome(gw_attempt + 1)}

\* one iteration of the retry loop: requests.post and what follows it
Attempt ==
    /\ pc = "gateway"
    /\ \E met \in AttemptOutcomes :
         LET o == Observed(met)
             r == GatewayStep(gw_fn, gw_attempt, o)
         IN  /\ ~Blocks(gw_fn, met)
             /\ gw_log' = Append(gw_log, [kind |-> o.kind, text |-> o.text,
                                           sleep |-> r.sleep])
             /\ IF r.ret
                THEN /\ gw_result' = r.value
                     /\ returned' = Append(returned, r.value)
                     /\ pc' = IF prog = "gateway" THEN "returned" ELSE "handle"
                     /\ gw_attempt' = gw_attempt
                ELSE /\ gw_attempt' = gw_attempt + 1
                     /\ UNCHANGED <<gw_result, returned, pc>>
    /\ UNCHANGED <<inputs, tool_memory, free_memory, os, disk, csv, idx, benchmark_memory,
                   translate_memory, calls>>

\* ------------------------------------------------- benchmark_model
IsBenchmark == prog \in {"benchmark_local", "benchmark_openrouter"}

\* __main__ and the head of benchmark_model: the credential guard
\* (benchmark_models.py) or the health check (benchmark-finetuned-model.py),
\* then the set-up of the run
BenchmarkStart ==
    /\ IsBenchmark
    /\ pc = "start"
    /\ IF ready
       THEN /\ model_answers' = EmptyDict
            /\ \E now \in (IF invocation = 1 THEN {1} ELSE Timestamps) :
                   timestamp' = now
            /\ successful_answers' = 0
            /\ idx' = 1
            /\ pc' = "loop"
       ELSE /\ pc' = "returned"
            /\ UNCHANGED <<benchmark_memory, idx>>
    /\ UNCHANGED <<inputs, tool_memory, free_memory, os, disk, csv, translate_memory, gateway_memory,
                   calls, returned>>

\* `for index, row in df.iterrows():` up to the gateway call
BenchmarkLoop ==
    /\ IsBenchmark
    /\ pc = "loop"
    /\ IF idx > Len(rows)
       THEN /\ pc' = "final"
            /\ UNCHANGED <<idx, gw_attempt, gw_log, calls, returned>>
       ELSE IF rows[idx] \notin DOMAIN correct_answers
       THEN /\ idx' = idx + 1
            /\ UNCHANGED <<pc, gw_attempt, gw_log, calls, returned>>
       ELSE /\ pc' = "gateway"
            /\ gw_attempt' = 0
            /\ gw_log' = <<>>
            /\ calls' = Append(calls, idx)
            /\ UNCHANGED idx
    /\ UNCHANGED <<inputs, tool_memory, free_memory, os, disk, csv, benchmark_memory, translate_memory,
                   gw_result, returned>>

\* the rest of get_model_answer: the option letter, or "None"
get_model_answer(response) ==
    IF ~Truthy(response) THEN "None"
    ELSE IF prog = "benchmark_openrouter"
    THEN or_get_model_answer(response.text)
    ELSE extract_answer_letter(response.text)

\* seeded fault: an item without an answer ends the run
BenchmarkHandle_halts ==
    /\ IsBenchmark
    /\ pc = "handle"
    /\ LET model_answer == get_model_answer(gw_result)
       IN  IF model_answer # "None"
           THEN /\ model_answers' =
                       DictSet(model_answers, rows[idx], model_answer)
                /\ successful_answers' = successful_answers + 1
                /\ disk' = [disk EXCEPT ![timestamp] = Truncated0]
                /\ pc' = "dump"
           ELSE /\ pc' = "returned"
                /\ UNCHANGED <<model_answers, successful_answers, disk>>
    /\ UNCHANGED <<inputs, tool_memory, free_memory, os, csv, idx, timestamp, translate_memory,
                   gateway_memory, calls, returned>>

\* seeded fault: successful_answers is not incremented
BenchmarkHandle_uncounted ==
    /\ IsBenchmark
    /\ pc = "handle"
    /\ LET model_answer == get_model_answer(gw_result)
       IN  IF model_answer # "None"
           THEN /\ model_answers' =
                       DictSet(model_answers, rows[idx], model_answer)
                /\ disk' = [disk EXCEPT ![timestamp] = Truncated0]
                /\ pc' = "dump"
           ELSE /\ pc' = "sleep"
                /\ UNCHANGED <<model_answers, disk>>
    /\ UNCHANGED <<inputs, tool_memory, free_memory, os, csv, idx, successful_answers, timestamp,
                   translate_memory, gateway_memory, calls, returned>>

\* `if model_answer:` ... `with open(output_json, 'w', ...) as f:`
BenchmarkHandle ==
    /\ IsBenchmark
    /\ pc = "handle"
    /\ LET model_answer == get_model_answer(gw_result)
       IN  IF model_answer # "None"
           THEN /\ model_answers' =
                       DictSet(model_answers, rows[idx], model_answer)
                /\ successful_answers' = successful_answers + 1
                /\ disk' = [disk EXCEPT ![timestamp] = Truncated0]
                /\ pc' = "dump"
           ELSE /\ pc' = "sleep"
                /\ UNCHANGED <<model_answers, successful_answers, disk>>
    /\ UNCHANGED <<inputs, tool_memory, free_memory, os, csv, idx, timestamp, translate_memory,
                   gateway_memory, calls, returned>>

\* seeded fault: the dump is made for every second row only
BenchmarkDump_skips ==
    /\ IsBenchmark
    /\ pc = "dump"
    /\ disk' = IF idx % 2 = 0 THEN [disk EXCEPT ![timestamp] = progress_data]
               ELSE disk
    /\ pc' = "sleep"
    /\ UNCHANGED <<inputs, tool_memory, free_memory, os, csv, memory>>

\* seeded fault: the file is not flushed when the loop goes on
BenchmarkDump_unflushed ==
    /\ IsBenchmark
    /\ pc = "dump"
    /\ disk' = [disk EXCEPT ![timestamp] = Partial]
    /\ pc' = "sleep"
    /\ UNCHANGED <<inputs, tool_memory, free_memory, os, csv, memory>>

\* json.dump(...) and the close of the file
BenchmarkDump ==
    /\ IsBenchmark
    /\ pc = "dump"
    /\ disk' = [disk EXCEPT ![timestamp] = progress_data]
    /\ pc' = "sleep"
    /\ UNCHANGED <<inputs, tool_memory, free_memory, os, csv, memory>>

\* time.sleep(...) and the step to the next row
BenchmarkSleep ==
    /\ IsBenchmark
    /\ pc = "sleep"
    /\ idx' = idx + 1
    /\ pc' = "loop"
    /\ UNCHANGED <<inputs, tool_memory, free_memory, os, disk, csv, benchmark_memory, translate_memory,
                   gateway_memory, calls, returned>>

\* after the loop: evaluate_model and `with open(output_json, 'w', ...)`
BenchmarkFinal ==
    /\ IsBenchmark
    /\ pc = "final"
    /\ disk' = [disk EXCEPT ![timestamp] = Truncated0]
    /\ pc' = "finaldump"
    /\ UNCHANGED <<inputs, tool_memory, free_memory, os, csv, memory>>

\* json.dump(results, f, ...)
BenchmarkFinalDump ==
    /\ IsBenchmark
    /\ pc = "finaldump"
    /\ disk' = [disk EXCEPT ![timestamp] = results]
    /\ pc' = "done"
    /\ UNCHANGED <<inputs, tool_memory, free_memory, os, csv, memory>>

\* ----------------------------------------------- translate_dataset
IsTranslate == prog = "translate"

\* the entry into translate_text for row k in inner loop ph
BeginTranslation(k, ph) ==
    /\ idx' = k
    /\ phase' = ph
    /\ gw_attempt' = 0
    /\ gw_log' = <<>>
    /\ calls' = Append(calls, IF ph = "question" THEN 2 * k - 1 ELSE 2 * k)
    /\ pc' = "gateway"

\* __main__: `translator.process(test_mode=False)`, whatever args.test is
test_mode == FALSE
\* process: `self.translate_dataset(test_mode=test_mode, max_test_rows=10)`
max_test_rows == 10
\* translate_dataset: `if test_mode: df = df.head(max_test_rows)`
TranslateRows ==
    IF test_mode /\ Len(rows) > max_test_rows
    THEN SubSeq(rows, 1, max_test_rows)
    ELSE rows

\* min(i + batch_size, total_rows), total_rows = len(df)
batch_end == IF batch_i + batch_size < Len(df)
             THEN batch_i + batch_size ELSE Len(df)

\* seeded fault: the second invocation starts at the second batch
TranslateStart_resume ==
    /\ IsTranslate
    /\ pc = "start"
    /\ IF ready
       THEN /\ df' = [k \in 1..Len(TranslateRows) |->
                        EnglishRow(<<>>, <<>>)]
            /\ successful_translations' = 0
            /\ failed_translations' = 0
            /\ batch_i' = IF invocation = 2 THEN batch_size ELSE 0
            /\ pc' = "batch"
       ELSE /\ pc' = "returned"
            /\ UNCHANGED <<df, successful_translations, failed_translations,
                           batch_i>>
    /\ UNCHANGED <<inputs, tool_memory, free_memory, os, disk, csv, idx, benchmark_memory, phase,
                   gateway_memory, calls, returned>>

\* __init__ (the credential guard), then translate_dataset down to the
\* batch loop: pd.read_csv and the two new, empty columns
TranslateStart ==
    /\ IsTranslate
    /\ pc = "start"
    /\ IF ready
       THEN /\ df' = [k \in 1..Len(TranslateRows) |->
                        EnglishRow(<<>>, <<>>)]
            /\ successful_translations' = 0
            /\ failed_translations' = 0
            /\ batch_i' = 0
            /\ pc' = "batch"
       ELSE /\ pc' = "returned"
            /\ UNCHANGED <<df, successful_translations, failed_translations,
                           batch_i>>
    /\ UNCHANGED <<inputs, tool_memory, free_memory, os, disk, csv, idx, benchmark_memory, phase,
                   gateway_memory, calls, returned>>

\* `for i in tqdm(range(0, total_rows, batch_size), ...)`: the next batch
\* and the first question of it, or the end of the loop
TranslateBatch ==
    /\ IsTranslate
    /\ pc = "batch"
    /\ IF batch_i >= Len(df)
       THEN /\ pc' = "final"
            /\ UNCHANGED <<idx, phase, gw_attempt, gw_log, calls, returned>>
       ELSE BeginTranslation(batch_i + 1, "question")
    /\ UNCHANGED <<inputs, tool_memory, free_memory, os, disk, csv, benchmark_memory, df,
                   successful_translations, failed_translations, batch_i,
                   gw_result, returned>>

\* seeded fault: a failed translation leaves the field empty
TranslateHandle_unmasked ==
    /\ IsTranslate
    /\ pc = "handle"
    /\ LET translated == gw_result
       IN  IF Truthy(translated)
           THEN /\ df' = [df EXCEPT ![idx] =
                             IF phase = "question"
                             THEN [@ EXCEPT !.question_english =
                                                translated.text]
                             ELSE [@ EXCEPT !.model_answer_english =
                                                translated.text]]
                /\ successful_translations' = successful_translations + 1
                /\ UNCHANGED failed_translations
           ELSE /\ failed_translations' = failed_translations + 1
                /\ UNCHANGED <<df, successful_translations>>
    /\ csv' = CsvEmpty
    /\ pc' = "dump"
    /\ UNCHANGED <<inputs, tool_memory, free_memory, os, disk, idx, benchmark_memory, batch_i, phase,
                   gateway_memory, calls, returned>>

\* `if translated:` ... `else:` ..., then df.to_csv opening output_csv
TranslateHandle ==
    /\ IsTranslate
    /\ pc = "handle"
    /\ LET translated == gw_result
           original == IF phase = "question" THEN source_question(idx)
                       ELSE source_answer(idx)
           value == IF Truthy(translated) THEN translated.text ELSE original
       IN  /\ df' = [df EXCEPT ![idx] =
                        IF phase = "question"
                        THEN [@ EXCEPT !.question_english = value]
                        ELSE [@ EXCEPT !.model_answer_english = value]]
           /\ IF Truthy(translated)
              THEN /\ successful_translations' = successful_translations + 1
                   /\ UNCHANGED failed_translations
              ELSE /\ failed_translations' = failed_translations + 1
                   /\ UNCHANGED successful_translations
    /\ csv' = CsvEmpty
    /\ pc' = "dump"
    /\ UNCHANGED <<inputs, tool_memory, free_memory, os, disk, idx, benchmark_memory, batch_i, phase,
                   gateway_memory, calls, returned>>

\* df.to_csv(self.output_csv, index=False): the rows reach the file
TranslateDump ==
    /\ IsTranslate
    /\ pc = "dump"
    /\ csv' = Csv("progress", df)
    /\ pc' = "sleep"
    /\ UNCHANGED <<inputs, tool_memory, free_memory, os, disk, memory>>

\* seeded fault: the answer of a row follows its question
TranslateSleep_rowwise ==
    /\ IsTranslate
    /\ pc = "sleep"
    /\ IF phase = "question"
       THEN BeginTranslation(idx, "answer") /\ UNCHANGED batch_i
       ELSE IF idx < batch_end
       THEN BeginTranslation(idx + 1, "question") /\ UNCHANGED batch_i
       ELSE /\ batch_i' = batch_i + batch_size
            /\ pc' = "batch"
            /\ UNCHANGED <<idx, phase, gw_attempt, gw_log, calls, returned>>
    /\ UNCHANGED <<inputs, tool_memory, free_memory, os, disk, csv, benchmark_memory, df,
                   successful_translations, failed_translations, gw_result,
                   returned>>

\* time.sleep(2), then the next row of the inner loop, the answers of the
\* batch after its questions, or the next batch
TranslateSleep ==
    /\ IsTranslate
    /\ pc = "sleep"
    /\ IF idx < batch_end
       THEN BeginTranslation(idx + 1, phase) /\ UNCHANGED batch_i
       ELSE IF phase = "question"
       THEN BeginTranslation(batch_i + 1, "answer") /\ UNCHANGED batch_i
       ELSE /\ batch_i' = batch_i + batch_size
            /\ pc' = "batch"
            /\ UNCHANGED <<idx, phase, gw_attempt, gw_log, calls, returned>>
    /\ UNCHANGED <<inputs, tool_memory, free_memory, os, disk, csv, benchmark_memory, df,
                   successful_translations, failed_translations, gw_result,
                   returned>>

\* english_df and english_df.to_csv opening output_csv
TranslateFinal ==
    /\ IsTranslate
    /\ pc = "final"
    /\ csv' = CsvEmpty
    /\ pc' = "finaldump"
    /\ UNCHANGED <<inputs, tool_memory, free_memory, os, disk, memory>>

\* english_df.to_csv(self.output_csv, index=False): the rows reach the file
TranslateFinalDump ==
    /\ IsTranslate
    /\ pc = "finaldump"
    /\ csv' = Csv("final", df)
    /\ pc' = "done"
    /\ UNCHANGED <<inputs, tool_memory, free_memory, os, disk, memory>>

\* ------------------------------------------------------ process_csv
IsProcessCsv == prog = "process_csv"

\* response.split('\n')
RECURSIVE SplitLines(_)
SplitLines(t) ==
    IF \A i \in 1..Len(t) : t[i] # "\n" THEN <<t>>
    ELSE LET i == CHOOSE i \in 1..Len(t) :
                      t[i] = "\n" /\ \A j \in 1..(i - 1) : t[j] # "\n"
         IN  <<SubSeq(t, 1, i - 1)>> \o SplitLines(SubSeq(t, i + 1, Len(t)))

\* [line.strip() for line in response.split('\n') if line.strip()]
NonEmptyLines(t) ==
    LET all == SplitLines(t)
        stripped == [k \in 1..Len(all) |-> Strip(all[k])]
    IN  SelectSeq(stripped, LAMBDA l : l # <<>>)

\* sep + ' ' in line[:3]
InHead(line, sep) ==
    \E i \in 1..2 : i + 1 <= Len(line) /\ line[i] = sep /\ line[i + 1] = " "

\* line.split(sep + ' ', 1)[1]
AfterFirst(line, sep) ==
    LET i == CHOOSE i \in 1..(Len(line) - 1) :
                 /\ line[i] = sep /\ line[i + 1] = " "
                 /\ \A j \in 1..(i - 1) : ~(line[j] = sep /\ line[j + 1] = " ")
    IN  SubSeq(line, i + 2, Len(line))

\* the numbering "1. " or "1) " goes
Unnumbered(line) ==
    IF InHead(line, ".") THEN AfterFirst(line, ".")
    ELSE IF InHead(line, ")") THEN AfterFirst(line, ")")
    ELSE line

\* "Error generating answer k"
ErrorAnswer(k) == <<"E", DigitOf[k]>>

\* generate_wrong_answers, from the gateway's response on
generate_wrong_answers(response) ==
    IF ~Truthy(response) THEN [k \in 1..3 |-> ErrorAnswer(k)]
    ELSE LET lines == NonEmptyLines(response.text)
         IN  [k \in 1..3 |-> IF k <= Len(lines) THEN Unnumbered(lines[k])
                             ELSE ErrorAnswer(k)]

\* the cells Wrong_Answer_1..3 of a row as pd.read_csv gives them when
\* INPUT_CSV has these columns (text or NaN, both truthy), and '' as the
\* script sets them when it adds the columns
InputCells == <<<<"i">>, <<"i">>, <<"i">>>>
EmptyCells == <<<<>>, <<>>, <<>>>>

\* __main__ (the credential guard), then process_csv down to the loop
ProcessCsvStart ==
    /\ IsProcessCsv
    /\ pc = "start"
    /\ IF ready
       THEN /\ df' = [k \in 1..Len(rows) |->
                        IF input_has_wrong_answers THEN InputCells
                        ELSE EmptyCells]
            /\ idx' = 1
            /\ pc' = "loop"
       ELSE /\ pc' = "returned"
            /\ UNCHANGED <<df, idx>>
    /\ UNCHANGED <<inputs, tool_memory, free_memory, os, disk, csv, benchmark_memory,
                   successful_translations, failed_translations, batch_i,
                   phase, gateway_memory, calls, returned>>

\* `for index, row in df.iterrows():` up to generate_wrong_answers
ProcessCsvLoop ==
    /\ IsProcessCsv
    /\ pc = "loop"
    /\ IF idx > Len(rows)
       THEN /\ pc' = "final"
            /\ UNCHANGED <<idx, gw_attempt, gw_log, calls>>
       ELSE IF \A i \in 1..3 : df[idx][i] # <<>>
       THEN /\ idx' = idx + 1
            /\ UNCHANGED <<pc, gw_attempt, gw_log, calls>>
       ELSE /\ pc' = "gateway"
            /\ gw_attempt' = 0
            /\ gw_log' = <<>>
            /\ calls' = Append(calls, idx)
            /\ UNCHANGED idx
    /\ UNCHANGED <<inputs, tool_memory, free_memory, os, disk, csv, benchmark_memory, translate_memory,
                   gw_result, returned>>

\* df.at[index, ...] = wrong_answers[i], then df.to_csv opening OUTPUT_CSV
ProcessCsvHandle ==
    /\ IsProcessCsv
    /\ pc = "handle"
    /\ df' = [df EXCEPT ![idx] = generate_wrong_answers(gw_result)]
    /\ csv' = CsvEmpty
    /\ pc' = "dump"
    /\ UNCHANGED <<inputs, tool_memory, free_memory, os, disk, idx, benchmark_memory,
                   successful_translations, failed_translations, batch_i,
                   phase, gateway_memory, calls, returned>>

\* df.to_csv(OUTPUT_CSV, ...): the rows reach the file
ProcessCsvDump ==
    /\ IsProcessCsv
    /\ pc = "dump"
    /\ csv' = Csv("progress", df)
    /\ pc' = "sleep"
    /\ UNCHANGED <<inputs, tool_memory, free_memory, os, disk, memory>>

\* time.sleep(1) and the step to the next row
ProcessCsvSleep ==
    /\ IsProcessCsv
    /\ pc = "sleep"
    /\ idx' = idx + 1
    /\ pc' = "loop"
    /\ UNCHANGED <<inputs, tool_memory, free_memory, os, disk, csv, benchmark_memory, translate_memory,
                   gateway_memory, calls, returned>>

\* the final save: df.to_csv opening OUTPUT_CSV
ProcessCsvFinal ==
    /\ IsProcessCsv
    /\ pc = "final"
    /\ csv' = CsvEmpty
    /\ pc' = "finaldump"
    /\ UNCHANGED <<inputs, tool_memory, free_memory, os, disk, memory>>

\* the rows reach the file
ProcessCsvFinalDump ==
    /\ IsProcessCsv
    /\ pc = "finaldump"
    /\ csv' = Csv("final", df)
    /\ pc' = "done"
    /\ UNCHANGED <<inputs, tool_memory, free_memory, os, disk, memory>>

\* ------------------------------------------- the operating system
Running == pc \in {"start", "loop", "batch", "gateway", "handle", "dump",
                   "sleep", "final", "finaldump"}
\* the output file is open for writing
Writing == pc \in {"dump", "finaldump"}
\* the call issued last has been handled and its save has ended
LastCallSettled == pc \notin {"gateway", "handle", "dump"}

\* The process is killed.  Its memory is lost.  A file it had opened for
\* writing and not yet closed keeps whatever part of the dump had reached
\* the disk: nothing, or a first part.
Kill ==
    /\ prog # "gateway"
    /\ invocation = 1
    /\ Running
    /\ pc' = "killed"
    /\ IF Writing /\ IsBenchmark
       THEN \E f \in {Truncated0, Partial} :
                disk' = [disk EXCEPT ![timestamp] = f]
       ELSE UNCHANGED disk
    /\ IF Writing /\ (IsTranslate \/ IsProcessCsv)
       THEN \E f \in {CsvEmpty, CsvPartial} : csv' = f
       ELSE UNCHANGED csv
    /\ completed_before' =
          {calls[k] : k \in {j \in 1..Len(calls) :
                                j < Len(calls) \/ LastCallSettled}}
    /\ idx' = 0
    /\ model_answers' = EmptyDict
    /\ successful_answers' = 0
    /\ timestamp' = 0
    /\ df' = <<>>
    /\ successful_translations' = 0
    /\ failed_translations' = 0
    /\ batch_i' = 0
    /\ phase' = "question"
    /\ gw_attempt' = 0
    /\ gw_log' = <<>>
    /\ gw_result' = None
    /\ calls' = <<>>
    /\ returned' = <<>>
    /\ killed_writing' = Writing
    /\ UNCHANGED <<inputs, tool_memory, free_memory, invocation, signal_at>>

\* The script is started again.
Restart ==
    /\ pc = "killed"
    /\ invocation = 1
    /\ invocation' = 2
    /\ pc' = "start"
    /\ UNCHANGED <<inputs, tool_memory, free_memory, disk, csv, memory, completed_before,
                   killed_writing, signal_at>>

\* the steps of the script itself
Program ==
    \/ Attempt
    \/ BenchmarkStart
    \/ BenchmarkLoop
    \/ BenchmarkHandle
    \/ BenchmarkDump
    \/ BenchmarkSleep
    \/ BenchmarkFinal
    \/ BenchmarkFinalDump
    \/ TranslateStart
    \/ TranslateBatch
    \/ TranslateHandle
    \/ TranslateDump
    \/ TranslateSleep
    \/ TranslateFinal
    \/ TranslateFinalDump
    \/ ProcessCsvStart
    \/ ProcessCsvLoop
    \/ ProcessCsvHandle
    \/ ProcessCsvDump
    \/ ProcessCsvSleep
    \/ ProcessCsvFinal
    \/ ProcessCsvFinalDump

Next ==
    \/ Program
    \/ Kill
    \/ Restart

Spec == Init /\ [][Next]_vars

\* ------------------------------------- the free-answer benchmarks
\*   "free_openrouter"  scripts/benchmark_free_answers.py
\*   "free_rag"         benchmarking_second_method_scripts/
\*                          benchmark_free_answers-rag.py
\*   "free_local"       benchmarking_second_method_scripts/
\*                          benchmark-finetuned-model.py
\* For these svc[i] lists the outcomes of the successive HTTP requests made
\* for row i (the RAG context first in free_rag, then the model's answer,
\* then the evaluation), and `ready` is what precedes the loop: the backend
\* login of free_rag, the health check of free_local.
IsFree == prog \in {"free_openrouter", "free_rag", "free_local"}

\* df.head(10) under --test
TestHead == 10

\* the evaluator's texts
EvalCorrect ==
    <<"B","i","n","a","r","y"," ","C","o","r","r","e","c","t","n","e","s",
      "s",":"," ","1">>
EvalIncorrect ==
    <<"C","l","a","r","i","t","y",":"," ","1","0","\n",
      "B","i","n","a","r","y"," ","C","o","r","r","e","c","t","n","e","s",
      "s",":"," ","0">>
\* no line starts with 'binary correctness'
EvalNoLine == <<"C","l","a","r","i","t","y",":"," ","1">>
\* the line is there, without ':'
EvalNoColon ==
    <<"B","i","n","a","r","y"," ","C","o","r","r","e","c","t","n","e","s",
      "s"," ","1">>
\* "Evaluation skipped - no OpenRouter API key" (evaluate_answer) and
\* "Evaluation skipped - no API key" (call_openrouter) of free_local
TextSkippedNoKey ==
    <<"E","v","a","l","u","a","t","i","o","n"," ","s","k","i","p","p","e",
      "d"," ","-"," ","n","o"," ","O","p","e","n","R","o","u","t","e","r",
      " ","A","P","I"," ","k","e","y">>
TextSkippedGateway ==
    <<"E","v","a","l","u","a","t","i","o","n"," ","s","k","i","p","p","e",
      "d"," ","-"," ","n","o"," ","A","P","I"," ","k","e","y">>
\* f"Evaluation error: {e}"
TextEvaluationError ==
    <<"E","v","a","l","u","a","t","i","o","n"," ","e","r","r","o","r",":",
      " ","e">>

\* what the service does with the requests made for one row: the answer,
\* then the evaluation
FreeScripts ==
    { <<Ok(TextPlain), Ok(EvalCorrect)>>,
      <<Ok(TextPlain), Ok(EvalIncorrect)>>,
      <<Ok(TextPlain), Ok(EvalNoLine)>>,
      <<Ok(TextPlain), Ok(EvalNoColon)>>,
      <<Ok(TextPlain), Fault("httperr")>>,
      <<Fault("timeout"), Fault("timeout")>> }
\* the same behind a RAG context, or no context
RagScripts ==
    {<<Ok(TextPlain)>> \o s : s \in FreeScripts} \cup {<<Fault("connerr")>>}

\* the place of the answer request in svc[i]
AnswerPos == IF prog = "free_rag" THEN 2 ELSE 1

\* the rows the loop goes through
FreeRows ==
    IF prog = "free_rag" /\ args_test /\ Len(rows) > TestHead
    THEN SubSeq(rows, 1, TestHead)
    ELSE rows

\* evaluation.startswith("Evaluation skipped")
StartsWith(t, prefix) ==
    Len(prefix) <= Len(t) /\ SubSeq(t, 1, Len(prefix)) = prefix

\* line.split(':'): the pieces between the colons
RECURSIVE SplitColon(_)
SplitColon(t) ==
    IF \A i \in 1..Len(t) : t[i] # ":" THEN <<t>>
    ELSE LET i == CHOOSE i \in 1..Len(t) :
                      t[i] = ":" /\ \A j \in 1..(i - 1) : t[j] # ":"
         IN  <<SubSeq(t, 1, i - 1)>> \o SplitColon(SubSeq(t, i + 1, Len(t)))

Parsed(v) == [raises |-> FALSE, value |-> v]
IndexError == [raises |-> TRUE, value |-> 0]

\* seeded fault: the score is looked for in the whole line
parse_binary_correct_wholeline(text) ==
    LET lines == SplitLines(text)
        hits == {k \in 1..Len(lines) :
                    MatchLit(lines[k], 1,
                             <<"b","i","n","a","r","y"," ","c","o","r","r",
                               "e","c","t","n","e","s","s">>) # 0}
        line == lines[CHOOSE k \in hits : \A j \in hits : k <= j]
    IN  IF hits = {} THEN Parsed(0)
        ELSE IF Contains(line, "1") THEN Parsed(1) ELSE Parsed(0)

\* binary_correct = 0
\* for line in evaluation.split('\n'):
\*     if line.lower().startswith('binary correctness'):
\*         binary_correct = 1 if '1' in line.split(':')[1] else 0
\*         break
parse_binary_correct(text) ==
    LET lines == SplitLines(text)
        hits == {k \in 1..Len(lines) :
                    MatchLit(lines[k], 1,
                             <<"b","i","n","a","r","y"," ","c","o","r","r",
                               "e","c","t","n","e","s","s">>) # 0}
        line == lines[CHOOSE k \in hits : \A j \in hits : k <= j]
        parts == SplitColon(line)
    IN  IF hits = {} THEN Parsed(0)
        ELSE IF Len(parts) < 2 THEN IndexError
        ELSE IF Contains(parts[2], "1") THEN Parsed(1) ELSE Parsed(0)

\* call_openrouter of free_local: a text whatever happens
evaluator_call_openrouter(o) ==
    IF ~api_key THEN Some(TextSkippedGateway)
    ELSE IF o.kind = "ok" THEN Some(Strip(o.text))
    ELSE Some(TextEvaluationError)

\* an entry of results["questions"]
QuestionEntry(a, e, b) ==
    [model_answer |-> a, evaluation |-> e, binary_correct |-> b]

\* results["accuracy"] of free_rag, as the two counts it divides
accuracy ==
    [total_questions |-> Cardinality(DOMAIN questions),
     correct_answers |->
        Cardinality({q \in DOMAIN questions :
                        questions[q].binary_correct = 1})]

\* json.dump(results, f, ...) inside the loop
free_progress == File("progress", timestamp, questions, 0, 0, NoEvaluation)
\* ... and after it, with processing_time_seconds (and accuracy)
free_results ==
    WithMetrics(
        File("final", timestamp, questions, 0, 0,
             IF prog = "free_rag" THEN accuracy ELSE NoEvaluation),
        IF prog = "free_rag" THEN {"processing_time_seconds", "accuracy"}
        ELSE {"processing_time_seconds"})

\* seeded fault: benchmark_free_answers.py starts without its credential
FreeStart_unguarded ==
    /\ IsFree
    /\ pc = "start"
    /\ IF prog # "free_openrouter" /\ ~ready
       THEN /\ pc' = "returned"
            /\ UNCHANGED <<questions, timestamp, idx>>
       ELSE /\ questions' = EmptyDict
            /\ timestamp' = 1
            /\ idx' = 1
            /\ pc' = "loop"
    /\ UNCHANGED <<inputs, tool_memory, os, disk, csv, model_answers, successful_answers,
                   translate_memory, gateway_memory, calls, returned,
                   cur_answer, cur_evaluation, slept>>

\* __main__ and the head of benchmark_model
FreeStart ==
    /\ IsFree
    /\ pc = "start"
    /\ IF (prog = "free_openrouter" /\ ~api_key)
          \/ (prog # "free_openrouter" /\ ~ready)
       THEN /\ pc' = "returned"
            /\ UNCHANGED <<questions, timestamp, idx>>
       ELSE /\ questions' = EmptyDict
            /\ timestamp' = 1
            /\ idx' = 1
            /\ pc' = "loop"
    /\ UNCHANGED <<inputs, tool_memory, os, disk, csv, model_answers, successful_answers,
                   translate_memory, gateway_memory, calls, returned,
                   cur_answer, cur_evaluation, slept>>

\* `for index, row in df.iterrows():`
FreeLoop ==
    /\ IsFree
    /\ pc = "loop"
    /\ pc' = IF idx > Len(FreeRows) THEN "final"
             ELSE IF prog = "free_rag" THEN "context"
             ELSE "answer"
    /\ UNCHANGED <<inputs, tool_memory, os, disk, csv, memory, free_memory>>

\* get_rag_context and `if not context: ... continue`
FreeContext ==
    /\ IsFree
    /\ pc = "context"
    /\ calls' = Append(calls, idx)
    /\ slept' = FALSE
    /\ IF svc[idx][1].kind = "ok" /\ svc[idx][1].text # <<>>
       THEN pc' = "answer" /\ UNCHANGED idx
       ELSE pc' = "loop" /\ idx' = idx + 1
    /\ UNCHANGED <<inputs, tool_memory, os, disk, csv, benchmark_memory, translate_memory,
                   gateway_memory, returned, questions, cur_answer,
                   cur_evaluation>>

\* get_model_answer and `if model_answer:`
FreeAnswer ==
    /\ IsFree
    /\ pc = "answer"
    /\ IF prog # "free_local" /\ ~api_key
       THEN \* raise ValueError(...)
            /\ pc' = "except"
            /\ UNCHANGED <<calls, slept, cur_answer>>
       ELSE /\ calls' = Append(calls, idx)
            /\ slept' = FALSE
            /\ cur_answer' = call_openrouter(0, svc[idx][AnswerPos]).value
            /\ pc' = IF Truthy(cur_answer') THEN "evaluate" ELSE "sleep"
    /\ UNCHANGED <<inputs, tool_memory, os, disk, csv, idx, benchmark_memory,
                   translate_memory, gateway_memory, returned, questions,
                   cur_evaluation>>

\* evaluate_answer
FreeEvaluate ==
    /\ IsFree
    /\ pc = "evaluate"
    /\ IF ~api_key
       THEN /\ IF prog = "free_local"
               THEN /\ cur_evaluation' = Some(TextSkippedNoKey)
                    /\ pc' = "handle"
               ELSE \* raise ValueError(...)
                    /\ pc' = "except"
                    /\ UNCHANGED cur_evaluation
            /\ UNCHANGED <<calls, slept>>
       ELSE /\ calls' = Append(calls, idx)
            /\ slept' = FALSE
            /\ cur_evaluation' =
                  IF prog = "free_local"
                  THEN evaluator_call_openrouter(svc[idx][AnswerPos + 1])
                  ELSE call_openrouter(0, svc[idx][AnswerPos + 1]).value
            /\ pc' = "handle"
    /\ UNCHANGED <<inputs, tool_memory, os, disk, csv, idx, benchmark_memory,
                   translate_memory, gateway_memory, returned, questions,
                   cur_answer>>

\* the parse of the evaluation, results["questions"][question_id] = {...}
\* and `with open(output_json, 'w', ...) as f:`
FreeHandle ==
    /\ IsFree
    /\ pc = "handle"
    /\ LET skipped == /\ prog = "free_local"
                      /\ ~cur_evaluation.none
                      /\ StartsWith(cur_evaluation.text,
                                    SubSeq(TextSkippedNoKey, 1, 18))
           parsed == IF skipped THEN Parsed(0)
                     ELSE parse_binary_correct(cur_evaluation.text)
       IN  IF cur_evaluation.none \/ parsed.raises
           THEN \* TypeError / AttributeError on None, IndexError
                /\ pc' = "except"
                /\ UNCHANGED <<questions, disk>>
           ELSE /\ questions' =
                      DictSet(questions, rows[idx],
                              QuestionEntry(cur_answer.text,
                                            cur_evaluation.text,
                                            parsed.value))
                /\ disk' = [disk EXCEPT ![timestamp] = Truncated0]
                /\ pc' = "dump"
    /\ UNCHANGED <<inputs, tool_memory, os, csv, memory, cur_answer, cur_evaluation,
                   slept>>

\* json.dump(results, f, ...) and the close of the file
FreeDump ==
    /\ IsFree
    /\ pc = "dump"
    /\ disk' = [disk EXCEPT ![timestamp] = free_progress]
    /\ pc' = "sleep"
    /\ UNCHANGED <<inputs, tool_memory, os, csv, memory, free_memory>>

\* time.sleep(...) at the end of the try block
FreeSleep ==
    /\ IsFree
    /\ pc = "sleep"
    /\ slept' = TRUE
    /\ idx' = idx + 1
    /\ pc' = "loop"
    /\ UNCHANGED <<inputs, tool_memory, os, disk, csv, benchmark_memory, translate_memory,
                   gateway_memory, calls, returned, questions, cur_answer,
                   cur_evaluation>>

\* `except Exception as e:` ... `with open(output_json, 'w', ...) as f:`
FreeExcept ==
    /\ IsFree
    /\ pc = "except"
    /\ disk' = [disk EXCEPT ![timestamp] = Truncated0]
    /\ pc' = "exceptdump"
    /\ UNCHANGED <<inputs, tool_memory, os, csv, memory, free_memory>>

\* json.dump(results, f, ...) of the except branch, then the next row
FreeExceptDump ==
    /\ IsFree
    /\ pc = "exceptdump"
    /\ disk' = [disk EXCEPT ![timestamp] = free_progress]
    /\ idx' = idx + 1
    /\ pc' = "loop"
    /\ UNCHANGED <<inputs, tool_memory, os, csv, benchmark_memory, translate_memory,
                   gateway_memory, calls, returned, free_memory>>

\* after the loop: the metrics and `with open(output_json, 'w', ...)`
FreeFinal ==
    /\ IsFree
    /\ pc = "final"
    /\ disk' = [disk EXCEPT ![timestamp] = Truncated0]
    /\ pc' = "finaldump"
    /\ UNCHANGED <<inputs, tool_memory, os, csv, memory, free_memory>>

\* json.dump(results, f, ...)
FreeFinalDump ==
    /\ IsFree
    /\ pc = "finaldump"
    /\ disk' = [disk EXCEPT ![timestamp] = free_results]
    /\ pc' = "done"
    /\ UNCHANGED <<inputs, tool_memory, os, csv, memory, free_memory>>

\* ---------------------------- uninterrupted runs of the benchmarks
InitFree ==
    /\ prog \in {"free_openrouter", "free_rag", "free_local"}
    /\ gw_fn = IF prog = "free_local" THEN "call_local_llama"
               ELSE "call_openrouter"
    /\ ready \in BOOLEAN
    /\ api_key \in BOOLEAN
    /\ args_test = FALSE
    /\ \E n \in 1..NumItems :
          /\ rows = [k \in 1..n |-> k]
          /\ svc \in [1..n -> IF prog = "free_rag" THEN RagScripts
                              ELSE FreeScripts]
    /\ correct_answers = EmptyDict
    /\ input_has_wrong_answers = FALSE
    /\ pc = "start"
    /\ FreshMemory
    /\ InitOS

InitRun ==
    \/ InitFree
    \/ InitBenchmark /\ prog = "benchmark_openrouter"

NextRun ==
    \/ FreeStart
    \/ FreeLoop
    \/ FreeContext
    \/ FreeAnswer
    \/ FreeEvaluate
    \/ FreeHandle
    \/ FreeDump
    \/ FreeSleep
    \/ FreeExcept
    \/ FreeExceptDump
    \/ FreeFinal
    \/ FreeFinalDump
    \/ Attempt
    \/ BenchmarkStart
    \/ BenchmarkLoop
    \/ BenchmarkHandle
    \/ BenchmarkDump
    \/ BenchmarkSleep
    \/ BenchmarkFinal
    \/ BenchmarkFinalDump

SpecRun == InitRun /\ [][NextRun]_vars

\* ------------------- the answer selectors on their own: one question,
\* answered by the model with a text out of a bounded set
\* the words a response is made of
MaxWords == 3
Vocabulary ==
    { <<"B">>, <<"d">>, <<"x">>, <<"n","o","t"," ","d">>,
      <<"a","n","s","w","e","r",":">>,
      <<"a","n","s","w","e","r"," ","i","s">>,
      <<"I"," ","c","h","o","o","s","e">>,
      <<"i","s"," ","c","o","r","r","e","c","t">> }

\* the words of a phrase with one blank between them
RECURSIVE Join(_)
Join(ws) ==
    IF Len(ws) = 1 THEN ws[1] ELSE ws[1] \o <<" ">> \o Join(Tail(ws))

TextAnswerIsC ==
    <<"T","h","e"," ","a","n","s","w","e","r"," ","i","s"," ","C"," ",
      "b","e","c","a","u","s","e",".",".",".">>
TextThinkD == <<"I"," ","t","h","i","n","k"," ","i","t","'","s"," ","d">>

ResponseTexts ==
    {Join(ws) : ws \in UNION {[1..n -> Vocabulary] : n \in 1..MaxWords}}
        \cup {TextAnswerIsC, TextThinkD, TextNoLetter}

InitExtract ==
    /\ prog \in {"benchmark_local", "benchmark_openrouter"}
    /\ gw_fn = GatewayOf(prog)
    /\ ready = TRUE
    /\ rows = <<1>>
    /\ correct_answers = [q \in {1} |-> "B"]
    /\ svc \in {[k \in {1} |-> <<Ok(t)>>] : t \in ResponseTexts}
    /\ input_has_wrong_answers = FALSE
    /\ api_key = TRUE
    /\ args_test = FALSE
    /\ pc = "start"
    /\ FreshMemory
    /\ InitOS

NextExtract ==
    \/ Attempt
    \/ BenchmarkStart
    \/ BenchmarkLoop
    \/ BenchmarkHandle
    \/ BenchmarkDump
    \/ BenchmarkSleep
    \/ BenchmarkFinal
    \/ BenchmarkFinalDump

SpecExtract == InitExtract /\ [][NextExtract]_vars


\* ------------------------------------- a service that may stay silent
\* the service answers the call at once, or never answers it
WaitScripts == { <<Ok(TextB)>>, <<Fault("silent")>> }

InitWait ==
    /\ prog \in {"benchmark_local", "benchmark_openrouter", "translate"}
    /\ gw_fn = GatewayOf(prog)
    /\ ready = TRUE
    /\ \E n \in 1..NumItems :
          /\ rows = [k \in 1..n |-> k]
          /\ correct_answers = IF IsTranslate THEN EmptyDict
                               ELSE [q \in 1..n |-> "B"]
          /\ svc \in [1..(IF IsTranslate THEN 2 * n ELSE n) -> WaitScripts]
    /\ input_has_wrong_answers = FALSE
    /\ api_key = TRUE
    /\ args_test = FALSE
    /\ pc = "start"
    /\ FreshMemory
    /\ InitOS

NextWait ==
    \/ Attempt
    \/ BenchmarkStart
    \/ BenchmarkLoop
    \/ BenchmarkHandle
    \/ BenchmarkDump
    \/ BenchmarkSleep
    \/ BenchmarkFinal
    \/ BenchmarkFinalDump
    \/ TranslateStart
    \/ TranslateBatch
    \/ TranslateHandle
    \/ TranslateDump
    \/ TranslateSleep
    \/ TranslateFinal
    \/ TranslateFinalDump

\* a script that can take a step does take it: the interpreter runs the
\* single thread of the script without pause
SpecWait == InitWait /\ [][NextWait]_vars /\ WF_vars(NextWait)

\* ------------------------------------------- inputs around the sample
\* how many rows the input may have beyond the sample of --test
ExtraRows == 1

InitTest ==
    /\ prog \in {"translate", "free_rag"}
    /\ gw_fn = GatewayOf(prog)
    /\ ready = TRUE
    /\ api_key = TRUE
    /\ args_test \in BOOLEAN
    /\ \E n \in (TestHead - 1)..(TestHead + ExtraRows) :
          /\ rows = [k \in 1..n |-> k]
          /\ svc = IF IsTranslate
                   THEN [c \in 1..(2 * n) |-> <<Ok(TextPlain)>>]
                   ELSE [i \in 1..n |->
                            <<Ok(TextPlain), Ok(TextPlain), Ok(EvalCorrect)>>]
    /\ correct_answers = EmptyDict
    /\ input_has_wrong_answers = FALSE
    /\ pc = "start"
    /\ FreshMemory
    /\ InitOS

NextTest ==
    \/ Attempt
    \/ TranslateStart
    \/ TranslateBatch
    \/ TranslateHandle
    \/ TranslateDump
    \/ TranslateSleep
    \/ TranslateFinal
    \/ TranslateFinalDump
    \/ FreeStart
    \/ FreeLoop
    \/ FreeContext
    \/ FreeAnswer
    \/ FreeEvaluate
    \/ FreeHandle
    \/ FreeDump
    \/ FreeSleep
    \/ FreeFinal
    \/ FreeFinalDump

SpecTest == InitTest /\ [][NextTest]_vars

\* ------------------------- the evaluation parse on its own: one row,
\* evaluated by the judge with a text out of a bounded set
\* the lines an evaluation is made of
MaxLines == 2
EvalLines ==
    { <<"B","i","n","a","r","y"," ","C","o","r","r","e","c","t","n","e","s","s",":"," ","1">>,
      <<"B","i","n","a","r","y"," ","C","o","r","r","e","c","t","n","e","s","s",":"," ","0">>,
      <<"B","i","n","a","r","y"," ","C","o","r","r","e","c","t","n","e","s","s",":"," ","0"," ","-"," ","1"," ","g","a","p">>,
      <<"b","i","n","a","r","y"," ","c","o","r","r","e","c","t","n","e","s","s",":"," ","1"," ","-"," ","o","k">>,
      <<"C","l","a","r","i","t","y",":"," ","1","0">> }

\* "\n".join(ls)
RECURSIVE JoinLines(_)
JoinLines(ls) ==
    IF Len(ls) = 1 THEN ls[1] ELSE ls[1] \o <<"\n">> \o JoinLines(Tail(ls))

EvalTexts ==
    {JoinLines(ls) : ls \in UNION {[1..n -> EvalLines] : n \in 1..MaxLines}}

InitParse ==
    /\ prog \in {"free_openrouter", "free_rag"}
    /\ gw_fn = "call_openrouter"
    /\ ready = TRUE
    /\ api_key = TRUE
    /\ args_test = FALSE
    /\ rows = <<1>>
    /\ \E e \in EvalTexts :
          svc = [k \in {1} |-> IF prog = "free_rag"
                               THEN <<Ok(TextPlain), Ok(TextPlain), Ok(e)>>
                               ELSE <<Ok(TextPlain), Ok(e)>>]
    /\ correct_answers = EmptyDict
    /\ input_has_wrong_answers = FALSE
    /\ pc = "start"
    /\ FreshMemory
    /\ InitOS

NextParse ==
    \/ FreeStart
    \/ FreeLoop
    \/ FreeContext
    \/ FreeAnswer
    \/ FreeEvaluate
    \/ FreeHandle
    \/ FreeDump
    \/ FreeSleep
    \/ FreeFinal
    \/ FreeFinalDump

SpecParse == InitParse /\ [][NextParse]_vars

\* -------------------- the cleaning of a translation on its own: one row
\* whose question is translated into a text out of a bounded set
CleanVocabulary ==
    { <<"A","n","s","w","e","r",":">>,
      <<"T","R","A","N","S","L","A","T","I","O","N",":">>,
      <<"I","n"," ","E","n","g","l","i","s","h",":">>,
      <<"T","h","e"," ","a","n","s","w","e","r"," ","i","s",":">>,
      <<"o","k">> }

RawTranslations ==
    {Join(ws) : ws \in UNION {[1..n -> CleanVocabulary] : n \in 1..MaxWords}}

InitClean ==
    /\ prog = "translate"
    /\ gw_fn = GatewayOf(prog)
    /\ ready = TRUE
    /\ api_key = TRUE
    /\ args_test = FALSE
    /\ rows = <<1>>
    /\ \E t \in RawTranslations :
          svc = [c \in 1..2 |-> IF c = 1 THEN <<Ok(t)>> ELSE <<Ok(TextPlain)>>]
    /\ correct_answers = EmptyDict
    /\ input_has_wrong_answers = FALSE
    /\ pc = "start"
    /\ FreshMemory
    /\ InitOS

NextClean ==
    \/ Attempt
    \/ TranslateStart
    \/ TranslateBatch
    \/ TranslateHandle
    \/ TranslateDump
    \/ TranslateSleep
    \/ TranslateFinal
    \/ TranslateFinalDump

SpecClean == InitClean /\ [][NextClean]_vars

\* ------------------------------------------------ randomize_answers
\* scripts/benchmarking_data_processing/randomize_answers.py
IsRandomize == prog = "randomize_answers"

prepare_memory == <<use_openrouter, loaded, all_answers>>
embed_memory == <<texts, cur_batch_size, range_step, all_embeddings>>
store_memory == <<call_stack, collection, stored_ever, reported>>
summarize_memory == <<full_answer, summary>>
split_memory == <<split_text, chunk_size, overlap, start, chunks>>
\* what the tools leave alone of the inputs of the drivers
run_inputs == <<prog, gw_fn, ready, rows, svc, input_has_wrong_answers,
                api_key, args_test>>

\* options = ['A', 'B', 'C', 'D']
options == <<"A", "B", "C", "D">>

\* the cell of input row k in column c: four different texts
Cell(k, c) == <<Lower(c), DigitOf[k]>>
InputRow(k) == [c \in {"A", "B", "C", "D"} |-> Cell(k, c)]

\* the orders random.shuffle can leave three items in
Shuffles == {p \in [1..3 -> 1..3] : \A i, j \in 1..3 : p[i] = p[j] => i = j}

\* the if / elif chain: the four columns of the row
Placed(correct_position, correct_answer, wrong_answers) ==
    CASE correct_position = "A" ->
            [A |-> correct_answer, B |-> wrong_answers[1],
             C |-> wrong_answers[2], D |-> wrong_answers[3]]
      [] correct_position = "B" ->
            [A |-> wrong_answers[1], B |-> correct_answer,
             C |-> wrong_answers[2], D |-> wrong_answers[3]]
      [] correct_position = "C" ->
            [A |-> wrong_answers[1], B |-> wrong_answers[2],
             C |-> correct_answer, D |-> wrong_answers[3]]
      [] OTHER ->
            [A |-> wrong_answers[1], B |-> wrong_answers[2],
             C |-> wrong_answers[3], D |-> correct_answer]

\* df = pd.read_csv(...), correct_answers = {}, randomized_df = df.copy()
RandomizeStart ==
    /\ IsRandomize
    /\ pc = "start"
    /\ correct_answers' = EmptyDict
    /\ randomized_df' = [k \in 1..Len(rows) |-> InputRow(k)]
    /\ idx' = 1
    /\ pc' = "loop"
    /\ UNCHANGED <<run_inputs, free_memory, prepare_memory, embed_memory, store_memory, summarize_memory, split_memory, os, disk, csv, benchmark_memory,
                   translate_memory, gateway_memory, calls, returned>>

\* seeded fault: the wrong answers are drawn with replacement
RandomizeRow_repeats ==
    /\ IsRandomize
    /\ pc = "loop"
    /\ idx <= Len(rows)
    /\ \E correct_position \in {options[i] : i \in 1..4},
          shuffle \in [1..3 -> 1..3] :
          LET row == InputRow(idx)
              unshuffled == <<row["B"], row["C"], row["D"]>>
              wrong_answers == [i \in 1..3 |-> unshuffled[shuffle[i]]]
          IN  /\ correct_answers' =
                     DictSet(correct_answers, rows[idx], correct_position)
              /\ randomized_df' =
                     [randomized_df EXCEPT ![idx] =
                         Placed(correct_position, row["A"], wrong_answers)]
    /\ idx' = idx + 1
    /\ UNCHANGED <<run_inputs, free_memory, prepare_memory, embed_memory, store_memory, summarize_memory, split_memory, os, disk, csv, pc, benchmark_memory,
                   translate_memory, gateway_memory, calls, returned>>

\* the body of `for index, row in df.iterrows():`
RandomizeRow ==
    /\ IsRandomize
    /\ pc = "loop"
    /\ idx <= Len(rows)
    /\ \E correct_position \in {options[i] : i \in 1..4},
          shuffle \in Shuffles :
          LET row == InputRow(idx)
              unshuffled == <<row["B"], row["C"], row["D"]>>
              wrong_answers == [i \in 1..3 |-> unshuffled[shuffle[i]]]
          IN  /\ correct_answers' =
                     DictSet(correct_answers, rows[idx], correct_position)
              /\ randomized_df' =
                     [randomized_df EXCEPT ![idx] =
                         Placed(correct_position, row["A"], wrong_answers)]
    /\ idx' = idx + 1
    /\ UNCHANGED <<run_inputs, free_memory, prepare_memory, embed_memory, store_memory, summarize_memory, split_memory, os, disk, csv, pc, benchmark_memory,
                   translate_memory, gateway_memory, calls, returned>>

\* randomized_df.to_csv(output_csv, ...) and json.dump(correct_answers, ...)
RandomizeWrite ==
    /\ IsRandomize
    /\ pc = "loop"
    /\ idx > Len(rows)
    /\ csv' = Csv("randomized", randomized_df)
    /\ pc' = "done"
    /\ UNCHANGED <<inputs, free_memory, tool_memory, os, disk, memory>>

InitRandomize ==
    /\ prog = "randomize_answers"
    /\ gw_fn = GatewayOf(prog)
    /\ ready = TRUE
    /\ api_key = TRUE
    /\ args_test = FALSE
    /\ rows \in RowSeqs
    /\ svc = <<>>
    /\ correct_answers = EmptyDict
    /\ input_has_wrong_answers = FALSE
    /\ pc = "start"
    /\ FreshMemory
    /\ InitOS

NextRandomize ==
    \/ RandomizeStart
    \/ RandomizeRow
    \/ RandomizeWrite

SpecRandomize == InitRandomize /\ [][NextRandomize]_vars

\* ------------------------------------ process_answers_for_finetuning
\* scripts/finetuning_data_preparation/process_for_finetuning.py
IsPrepare == prog = "process_for_finetuning"

\* how many questions the input holds at most
MaxQuestions == 3
\* the questions of the input: two that differ in case and blanks only
QuestionTexts == { <<"q","?">>, <<"Q","?"," ">>, <<"r","?">> }
AnswerLists == UNION {[1..n -> QuestionTexts] : n \in 1..MaxQuestions}

\* answer['question'].lower().strip()
QuestionKey(t) == Strip([i \in 1..Len(t) |-> Lower(t[i])])

\* find_duplicate_questions: the indices of a question that occurs more
\* than once, without its first occurrence (indices[1:])
FirstIndex(a, i) ==
    CHOOSE j \in 1..i : /\ QuestionKey(a[j]) = QuestionKey(a[i])
                        /\ \A h \in 1..(j - 1) :
                              QuestionKey(a[h]) # QuestionKey(a[i])
LaterDuplicates(a) == {i \in 1..Len(a) : FirstIndex(a, i) # i}
\* ... in the order of the loops over duplicates.items() and indices[1:]
RECURSIVE InLoopOrder(_, _)
InLoopOrder(a, S) ==
    IF S = {} THEN <<>>
    ELSE LET i == CHOOSE i \in S : \A j \in S :
                      \/ FirstIndex(a, i) < FirstIndex(a, j)
                      \/ FirstIndex(a, i) = FirstIndex(a, j) /\ i <= j
         IN  <<i>> \o InLoopOrder(a, S \ {i})

\* f"Rephrased: {text}"
Rephrased(text) == <<"R","e","p","h","r","a","s","e","d",":"," ">> \o text

\* paraphrase_with_openrouter
paraphrase_with_openrouter(text, key, o) ==
    IF ~key THEN Rephrased(text)
    ELSE IF o.kind = "ok" THEN Strip(o.text)
    ELSE Rephrased(text)

\* __main__ and the head of process_answers_for_finetuning:
\* load_correct_answers and find_duplicate_questions
PrepareStart ==
    /\ IsPrepare
    /\ pc = "start"
    /\ \E a \in AnswerLists : loaded' = a /\ all_answers' = a
    /\ \E u \in BOOLEAN : use_openrouter' = u
    /\ idx' = 1
    /\ pc' = "loop"
    /\ UNCHANGED <<inputs, free_memory, randomized_df, embed_memory, store_memory, summarize_memory, split_memory, os, disk, csv,
                   benchmark_memory, translate_memory, gateway_memory,
                   calls, returned>>

\* under `if use_openrouter:`, one turn of the loop over the later
\* duplicates
PrepareParaphrase ==
    /\ IsPrepare
    /\ pc = "loop"
    /\ use_openrouter
    /\ LET todo == InLoopOrder(loaded, LaterDuplicates(loaded))
       IN  /\ idx <= Len(todo)
           /\ \E o \in {Ok(TextPlain), Fault("httperr")} :
                 all_answers' = [all_answers EXCEPT ![todo[idx]] =
                                paraphrase_with_openrouter(@, api_key, o)]
    /\ idx' = idx + 1
    /\ UNCHANGED <<inputs, free_memory, randomized_df, use_openrouter,
                   loaded, embed_memory, store_memory, summarize_memory, split_memory, os, disk, csv, pc, benchmark_memory,
                   translate_memory, gateway_memory, calls, returned>>

\* the renumbering from 1 to N and the writing of the CSV file
PrepareWrite ==
    /\ IsPrepare
    /\ pc = "loop"
    /\ ~use_openrouter
          \/ idx > Len(InLoopOrder(loaded, LaterDuplicates(loaded)))
    /\ csv' = Csv("finetuning",
                  [k \in 1..Len(all_answers) |->
                      [question_id |-> k, question |-> all_answers[k]]])
    /\ pc' = "done"
    /\ UNCHANGED <<inputs, free_memory, tool_memory, os, disk, memory>>

InitPrepare ==
    /\ prog = "process_for_finetuning"
    /\ gw_fn = GatewayOf(prog)
    /\ ready = TRUE
    /\ api_key \in BOOLEAN
    /\ args_test = FALSE
    /\ rows = <<>>
    /\ svc = <<>>
    /\ correct_answers = EmptyDict
    /\ input_has_wrong_answers = FALSE
    /\ pc = "start"
    /\ FreshMemory
    /\ InitOS

NextPrepare ==
    \/ PrepareStart
    \/ PrepareParaphrase
    \/ PrepareWrite

SpecPrepare == InitPrepare /\ [][NextPrepare]_vars

\* ---------------------------------------------- generate_embeddings
\* scripts/process_textbook_enhanced.py
IsEmbed == prog = "generate_embeddings"

\* how many chunks the textbook gives at most
MaxChunks == 40
\* batch_size = 128 if total_memory >= 16 else 64, or 32 without CUDA
InitialBatchSizes == {128, 64, 32}

Min(a, b) == IF a < b THEN a ELSE b
Max(a, b) == IF a > b THEN a ELSE b

\* texts[i:i + batch_size]
batch_texts == SubSeq(texts, batch_i + 1,
                      Min(batch_i + cur_batch_size, Len(texts)))

\* texts = [chunk.text for chunk in chunks], the choice of batch_size and
\* the evaluation of range(0, len(texts), batch_size)
EmbedStart ==
    /\ IsEmbed
    /\ pc = "start"
    /\ \E n \in 1..MaxChunks : texts' = [k \in 1..n |-> k]
    /\ \E b \in InitialBatchSizes : cur_batch_size' = b /\ range_step' = b
    /\ all_embeddings' = <<>>
    /\ batch_i' = 0
    /\ pc' = "loop"
    /\ UNCHANGED <<inputs, free_memory, randomized_df, prepare_memory, store_memory, summarize_memory, split_memory, os,
                   disk, csv, idx, benchmark_memory, df,
                   successful_translations, failed_translations, phase,
                   gateway_memory, calls, returned>>

\* one turn of `for i in range(0, len(texts), batch_size):` encode
\* returns the embeddings of the batch in order, or raises RuntimeError
\* with 'out of memory', or raises something else
EmbedBatch ==
    /\ IsEmbed
    /\ pc = "loop"
    /\ batch_i < Len(texts)
    /\ \E outcome \in {"ok", "oom", "error"} :
          CASE outcome = "ok" ->
                  /\ all_embeddings' = all_embeddings \o batch_texts
                  /\ batch_i' = batch_i + range_step
                  /\ UNCHANGED <<cur_batch_size, pc>>
            [] outcome = "oom" ->
                  /\ cur_batch_size' = Max(8, cur_batch_size \div 2)
                  /\ batch_i' = batch_i + range_step
                  /\ UNCHANGED <<all_embeddings, pc>>
            [] OTHER ->
                  /\ pc' = "raised"
                  /\ UNCHANGED <<all_embeddings, cur_batch_size, batch_i>>
    /\ UNCHANGED <<inputs, free_memory, randomized_df, prepare_memory, store_memory, summarize_memory, split_memory, texts,
                   range_step, os, disk, csv, idx, benchmark_memory, df,
                   successful_translations, failed_translations, phase,
                   gateway_memory, calls, returned>>

\* return all_embeddings
EmbedReturn ==
    /\ IsEmbed
    /\ pc = "loop"
    /\ batch_i >= Len(texts)
    /\ pc' = "done"
    /\ UNCHANGED <<inputs, free_memory, tool_memory, os, disk, csv, memory>>

InitEmbed ==
    /\ prog = "generate_embeddings"
    /\ gw_fn = GatewayOf(prog)
    /\ ready = TRUE
    /\ api_key = TRUE
    /\ args_test = FALSE
    /\ rows = <<>>
    /\ svc = <<>>
    /\ correct_answers = EmptyDict
    /\ input_has_wrong_answers = FALSE
    /\ pc = "start"
    /\ FreshMemory
    /\ InitOS

NextEmbed ==
    \/ EmbedStart
    \/ EmbedBatch
    \/ EmbedReturn

SpecEmbed == InitEmbed /\ [][NextEmbed]_vars

\* ------------------------------------------------- store_in_chroma
\* scripts/process_textbook.py
IsStore == prog = "store_in_chroma"

\* how many chunks the outermost call is given at most
MaxStored == 55
\* batch_size = 50
chroma_batch_size == 50
\* max_retries = 3
StoreMaxRetries == 3

\* A frame of store_in_chroma: its `chunks` are the chunks lo..hi, i is
\* the loop variable, and stage tells where the call stands:
\*   "clear"   before self.collection.delete
\*   "batch"   at the head of the loop
\*   "upsert"  in the retry loop
\*   "first"   inside the call made for the first half of the batch
\*   "second"  inside the call made for the second half
Frame(lo, hi) == [lo |-> lo, hi |-> hi, i |-> 0, attempt |-> 0,
                  success_count |-> 0, stage |-> "clear"]
Top == call_stack[Len(call_stack)]
SetTop(f) == [call_stack EXCEPT ![Len(call_stack)] = f]
\* chunks[i:i + batch_size] of the frame
BatchLo(f) == f.lo + f.i
BatchHi(f) == Min(f.lo + f.i + chroma_batch_size - 1, f.hi)
BatchLen(f) == BatchHi(f) - BatchLo(f) + 1
\* half_size = len(batch_chunks) // 2
half_size(f) == BatchLen(f) \div 2
\* the frame at the next turn of its loop
NextTurn(f) == [f EXCEPT !.i = @ + chroma_batch_size, !.attempt = 0,
                         !.stage = "batch"]

store_rest == <<inputs, free_memory, randomized_df, prepare_memory,
                embed_memory, summarize_memory, split_memory, os, disk, csv, pc, memory>>

\* the outermost call
StoreStart ==
    /\ IsStore
    /\ pc = "start"
    /\ \E n \in 1..MaxStored : call_stack' = <<Frame(1, n)>>
    /\ collection' = {}
    /\ stored_ever' = {}
    /\ pc' = "loop"
    /\ UNCHANGED <<inputs, free_memory, randomized_df, prepare_memory,
                   embed_memory, summarize_memory, split_memory, reported, os, disk, csv, memory>>

\* self.collection.delete(where={"$exists": True}): the collection is
\* emptied, or the call raises and the function goes on
StoreClear ==
    /\ IsStore
    /\ pc = "loop"
    /\ Top.stage = "clear"
    /\ \E cleared \in BOOLEAN :
          collection' = IF cleared THEN {} ELSE collection
    /\ call_stack' = SetTop([Top EXCEPT !.stage = "batch"])
    /\ UNCHANGED <<store_rest, stored_ever, reported>>

\* the head of `for i in range(0, total_chunks, batch_size):`
StoreBatch ==
    /\ IsStore
    /\ pc = "loop"
    /\ Top.stage = "batch"
    /\ Top.lo + Top.i <= Top.hi
    /\ call_stack' = SetTop([Top EXCEPT !.stage = "upsert", !.attempt = 0])
    /\ UNCHANGED <<store_rest, collection, stored_ever, reported>>

\* the end of the loop and of the call: the statistics are printed; a
\* nested call returns into the caller, which makes the call for the
\* second half or leaves its retry loop by `break`
StoreReturn ==
    /\ IsStore
    /\ pc = "loop"
    /\ Top.stage = "batch"
    /\ Top.lo + Top.i > Top.hi
    /\ IF Len(call_stack) = 1
       THEN /\ reported' = Top.success_count
            /\ pc' = "done"
            /\ UNCHANGED call_stack
       ELSE LET caller == call_stack[Len(call_stack) - 1]
                below == SubSeq(call_stack, 1, Len(call_stack) - 2)
            IN  /\ call_stack' =
                      IF caller.stage = "first"
                      THEN below \o
                           <<[caller EXCEPT !.stage = "second"],
                             Frame(BatchLo(caller) + half_size(caller),
                                   BatchHi(caller))>>
                      ELSE below \o <<NextTurn(caller)>>
                /\ UNCHANGED <<reported, pc>>
    /\ UNCHANGED <<inputs, free_memory, randomized_df, prepare_memory,
                   embed_memory, summarize_memory, split_memory, collection, stored_ever, os, disk, csv,
                   idx, benchmark_memory, translate_memory, gateway_memory,
                   calls, returned>>

\* one turn of `for attempt in range(max_retries):` self.collection.upsert
\* stores the batch or raises
StoreUpsert ==
    /\ IsStore
    /\ pc = "loop"
    /\ Top.stage = "upsert"
    /\ \E stored \in BOOLEAN :
          LET batch == BatchLo(Top)..BatchHi(Top)
          IN  IF stored
              THEN /\ collection' = collection \cup batch
                   /\ stored_ever' = stored_ever \cup batch
                   /\ call_stack' =
                         SetTop(NextTurn([Top EXCEPT !.success_count =
                                                 @ + BatchLen(Top)]))
              ELSE /\ UNCHANGED <<collection, stored_ever>>
                   /\ call_stack' =
                         IF Top.attempt < StoreMaxRetries - 1
                         THEN SetTop([Top EXCEPT !.attempt = @ + 1])
                         ELSE IF BatchLen(Top) > 10
                         THEN SetTop([Top EXCEPT !.stage = "first"])
                                 \o <<Frame(BatchLo(Top),
                                            BatchLo(Top) + half_size(Top) - 1)>>
                         ELSE SetTop(NextTurn(Top))
    /\ UNCHANGED <<store_rest, reported>>

InitStore ==
    /\ prog = "store_in_chroma"
    /\ gw_fn = GatewayOf(prog)
    /\ ready = TRUE
    /\ api_key = TRUE
    /\ args_test = FALSE
    /\ rows = <<>>
    /\ svc = <<>>
    /\ correct_answers = EmptyDict
    /\ input_has_wrong_answers = FALSE
    /\ pc = "start"
    /\ FreshMemory
    /\ InitOS

NextStore ==
    \/ StoreStart
    \/ StoreClear
    \/ StoreBatch
    \/ StoreUpsert
    \/ StoreReturn

SpecStore == InitStore /\ [][NextStore]_vars

\* ------------------------------------------------ summarize_answer
\* scripts/summarize_option_a.py
IsSummarize == prog = "summarize_answer"

\* `200` of the two length tests, `197` of the cut of the response
SummaryLimit == 200
SummaryKeep == 197
\* how far from the limit the lengths of the texts go
MaxMargin == 6
TextLengths == (SummaryLimit - MaxMargin)..(SummaryLimit + MaxMargin)
\* a text of n characters
TextOfLength(n) == [k \in 1..n |-> "x"]
Ellipsis == <<".", ".", ".">>

\* the call with a question and an answer, up to call_openrouter(prompt)
SummarizeStart ==
    /\ IsSummarize
    /\ pc = "start"
    /\ \E n \in TextLengths : full_answer' = TextOfLength(n)
    /\ pc' = "gateway"
    /\ UNCHANGED <<inputs, free_memory, randomized_df, prepare_memory,
                   embed_memory, store_memory, summary, split_memory, os,
                   disk, csv,
                   memory>>

\* the rest of summarize_answer, once call_openrouter has returned
SummarizeReturn ==
    /\ IsSummarize
    /\ pc = "gateway"
    /\ \E o \in {Ok(TextOfLength(n)) : n \in TextLengths}
                    \cup {Ok(TextBlank), Fault("httperr")} :
          LET response == call_openrouter(0, o).value
          IN  summary' =
                 IF ~Truthy(response)
                 THEN (IF Len(full_answer) > SummaryLimit
                       THEN SubSeq(full_answer, 1, SummaryLimit) \o Ellipsis
                       ELSE full_answer)
                 ELSE IF Len(response.text) > SummaryLimit
                 THEN SubSeq(response.text, 1, SummaryKeep) \o Ellipsis
                 ELSE response.text
    /\ pc' = "done"
    /\ UNCHANGED <<inputs, free_memory, randomized_df, prepare_memory,
                   embed_memory, store_memory, full_answer, split_memory, os,
                   disk, csv,
                   memory>>

InitSummarize ==
    /\ prog = "summarize_answer"
    /\ gw_fn = GatewayOf(prog)
    /\ ready = TRUE
    /\ api_key = TRUE
    /\ args_test = FALSE
    /\ rows = <<>>
    /\ svc = <<>>
    /\ correct_answers = EmptyDict
    /\ input_has_wrong_answers = FALSE
    /\ pc = "start"
    /\ FreshMemory
    /\ InitOS

NextSummarize ==
    \/ SummarizeStart
    \/ SummarizeReturn

SpecSummarize == InitSummarize /\ [][NextSummarize]_vars

\* ------------------------------------------------ split_by_fixed_size
\* scripts/test_chunking.py
IsSplit == prog = "split_by_fixed_size"

\* the `50` of text.find(..., end - 50, end + 50) and of `> end - 50`
BoundaryWindow == 50
\* the longest text
MaxText == 60
\* how many chunks a run may append before the model stops following it
MaxEmitted == 12

\* A text of n characters: a full stop at position p and a newline at
\* position q (positions count from 0, -1 for none), letters elsewhere.
TextWith(n, p, q) ==
    [k \in 1..n |-> IF k - 1 = p THEN "."
                    ELSE IF k - 1 = q THEN "\n"
                    ELSE "a"]
SplitTexts ==
    {TextWith(n, p, q) : n \in {MaxText - 40, MaxText},
                         p \in {-1, 5, 25, 45}, q \in {-1, 30}}
        \cup {[k \in 1..(MaxText - 40) |-> " "]}
ChunkSizes == {10, 48, 49, 500}
Overlaps == {0, 2, 10, 50}

\* a slice index of Python, brought into 0..len
SliceIndex(i, len) ==
    IF i < 0 THEN Max(i + len, 0) ELSE Min(i, len)
\* text.find(ch, lo, hi): the lowest position of ch in text[lo:hi], or -1
Find(text, ch, lo, hi) ==
    LET from == SliceIndex(lo, Len(text))
        to == SliceIndex(hi, Len(text))
        found == {k \in from..(to - 1) : text[k + 1] = ch}
    IN  IF found = {} THEN -1
        ELSE CHOOSE k \in found : \A j \in found : k <= j
\* text[lo:hi] for lo, hi >= 0
Slice(text, lo, hi) ==
    LET from == SliceIndex(lo, Len(text))
        to == SliceIndex(hi, Len(text))
    IN  IF from < to THEN SubSeq(text, from + 1, to) ELSE <<>>

\* `end` of one pass of the loop that begins at position s
ChunkEnd(text, size, s) ==
    LET text_length == Len(text)
        end == Min(s + size, text_length)
        next_period ==
            Find(text, ".", end - BoundaryWindow, end + BoundaryWindow)
        next_newline ==
            Find(text, "\n", end - BoundaryWindow, end + BoundaryWindow)
    IN  IF end < text_length
        THEN IF next_period # -1 /\ next_period > end - BoundaryWindow
             THEN next_period + 1
             ELSE IF next_newline # -1
                     /\ next_newline > end - BoundaryWindow
             THEN next_newline + 1
             ELSE end
        ELSE end

split_rest == <<inputs, free_memory, randomized_df, prepare_memory,
                embed_memory, store_memory, summarize_memory, os, disk, csv,
                memory>>

\* the call: chunks = [], start = 0
SplitStart ==
    /\ IsSplit
    /\ pc = "start"
    /\ split_text' \in SplitTexts
    /\ chunk_size' \in ChunkSizes
    /\ overlap' \in Overlaps
    /\ start' = 0
    /\ chunks' = <<>>
    /\ pc' = "loop"
    /\ UNCHANGED split_rest

\* one pass of `while start < text_length`
SplitIteration ==
    /\ IsSplit
    /\ pc = "loop"
    /\ start < Len(split_text)
    /\ Len(chunks) < MaxEmitted
    /\ LET end == ChunkEnd(split_text, chunk_size, start)
           chunk == Strip(Slice(split_text, start, end))
       IN  /\ chunks' = IF chunk # <<>> THEN Append(chunks, chunk) ELSE chunks
           /\ start' = IF end - overlap > start THEN end - overlap ELSE end
    /\ UNCHANGED <<split_text, chunk_size, overlap, pc>>
    /\ UNCHANGED split_rest

\* the loop ends: return chunks
SplitReturn ==
    /\ IsSplit
    /\ pc = "loop"
    /\ ~(start < Len(split_text))
    /\ pc' = "done"
    /\ UNCHANGED split_memory
    /\ UNCHANGED split_rest

InitSplit ==
    /\ prog = "split_by_fixed_size"
    /\ gw_fn = GatewayOf(prog)
    /\ ready = TRUE
    /\ api_key = TRUE
    /\ args_test = FALSE
    /\ rows = <<>>
    /\ svc = <<>>
    /\ correct_answers = EmptyDict
    /\ input_has_wrong_answers = FALSE
    /\ pc = "start"
    /\ FreshMemory
    /\ InitOS

NextSplit ==
    \/ SplitStart
    \/ SplitIteration
    \/ SplitReturn

SpecSplit == InitSplit /\ [][NextSplit]_vars

\* ------------------------------------------------ what the claims use
Last(s) == s[Len(s)]
Range(s) == {s[k] : k \in 1..Len(s)}
IsPrefix(s, t) == Len(s) <= Len(t) /\ \A k \in 1..Len(s) : s[k] = t[k]

\* the gateway call at hand has returned
CallReturned == pc # "gateway" /\ gw_log # <<>>
\* the calls of this invocation whose result the driver has handled
Handled == IF pc \in {"gateway", "handle"} THEN Len(calls) - 1 ELSE Len(calls)

\* the rows benchmark_model calls the gateway for, in file order
EligibleRows ==
    SelectSeq([k \in 1..Len(rows) |-> k],
              LAMBDA k : rows[k] \in DOMAIN correct_answers)

\* the answers that the results of the first n calls amount to
RECURSIVE AnswersAfter(_)
AnswersAfter(n) ==
    IF n = 0 THEN EmptyDict
    ELSE LET a == get_model_answer(returned[n])
         IN  IF a = "None" THEN AnswersAfter(n - 1)
             ELSE DictSet(AnswersAfter(n - 1), rows[calls[n]], a)

\* the table that the results of the first n translations amount to
RECURSIVE TableAfter(_)
TableAfter(n) ==
    IF n = 0 THEN [k \in 1..Len(rows) |-> EnglishRow(<<>>, <<>>)]
    ELSE LET c == calls[n]
             k == (c + 1) \div 2
             v == IF Truthy(returned[n]) THEN returned[n].text
                  ELSE IF c % 2 = 1 THEN source_question(k)
                  ELSE source_answer(k)
         IN  [TableAfter(n - 1) EXCEPT ![k] =
                 IF c % 2 = 1 THEN [@ EXCEPT !.question_english = v]
                 ELSE [@ EXCEPT !.model_answer_english = v]]

\* what one gateway call returns when nothing interrupts it
RECURSIVE CallResult(_, _, _)
CallResult(fn, script, attempt) ==
    LET o == script[IF attempt + 1 <= Len(script) THEN attempt + 1
                    ELSE Len(script)]
        r == GatewayStep(fn, attempt, o)
    IN  IF r.ret THEN r.value ELSE CallResult(fn, script, attempt + 1)

\* the answers of one uninterrupted run over the first n rows
RECURSIVE UninterruptedAnswers(_)
UninterruptedAnswers(n) ==
    IF n = 0 THEN EmptyDict
    ELSE IF rows[n] \notin DOMAIN correct_answers
    THEN UninterruptedAnswers(n - 1)
    ELSE LET a == get_model_answer(CallResult(gw_fn, svc[n], 0))
         IN  IF a = "None" THEN UninterruptedAnswers(n - 1)
             ELSE DictSet(UninterruptedAnswers(n - 1), rows[n], a)

\* the table of one uninterrupted translation
UninterruptedField(c, original) ==
    LET v == CallResult("translate_text", svc[c], 0)
    IN  IF Truthy(v) THEN v.text ELSE original

UninterruptedTable ==
    [k \in 1..Len(rows) |->
        EnglishRow(UninterruptedField(2 * k - 1, source_question(k)),
                   UninterruptedField(2 * k, source_answer(k)))]

\* the order in which translate_dataset sends its calls for n rows, from
\* the batch that starts after row i on
RECURSIVE BatchOrder(_, _)
BatchOrder(i, n) ==
    IF i >= n THEN <<>>
    ELSE LET e == IF i + 2 < n THEN i + 2 ELSE n
         IN  [k \in 1..(e - i) |-> 2 * (i + k) - 1]
                 \o [k \in 1..(e - i) |-> 2 * (i + k)]
                 \o BatchOrder(i + 2, n)

FilesComplete ==
    /\ \A t \in Timestamps : disk[t] = Absent \/ Parseable(disk[t])
    /\ csv.kind \in {"absent", "progress", "final"}

\* ------------------------------------------------------------ claims

\* C1: in benchmark_model a failing item never halts the batch: after an
\* item, whatever its result, the loop can step on; the run ends only
\* after the gateway has been called for every row with a reference
\* answer; the final results are written, and they hold exactly what the
\* successful items produced, the failed ones leaving no trace.
C1_FailureIsolated ==
    (IsBenchmark /\ ready) =>
        /\ pc # "returned"
        /\ pc \in {"sleep", "loop"} => ENABLED (BenchmarkSleep \/ BenchmarkLoop)
        /\ pc = "done" =>
              /\ calls = EligibleRows
              /\ Len(returned) = Len(calls)
              /\ disk[timestamp].kind = "final"
              /\ disk[timestamp].answers = AnswersAfter(Len(calls))

C1_Witness ==
    /\ IsBenchmark
    /\ pc = "done"
    /\ \E j, k \in 1..Len(returned) :
          /\ j < k
          /\ get_model_answer(returned[j]) = "None"
          /\ get_model_answer(returned[k]) # "None"
          /\ rows[calls[k]] \in DOMAIN disk[timestamp].answers

\* C2: the output is saved after every item: whenever the driver is about
\* to take up the next item, the file on disk holds the results of all
\* the items handled so far.
C2_SavedAfterEveryItem ==
    /\ (IsBenchmark /\ pc \in {"loop", "gateway"}
            /\ AnswersAfter(Handled) # EmptyDict) =>
          /\ Parseable(disk[timestamp])
          /\ disk[timestamp].answers = AnswersAfter(Handled)
    /\ (IsTranslate /\ pc \in {"batch", "gateway"} /\ Handled > 0) =>
          csv = Csv("progress", TableAfter(Handled))

C2_Witness ==
    /\ IsBenchmark
    /\ pc = "gateway"
    /\ Len(calls) = 2
    /\ rows[calls[1]] \in DOMAIN disk[timestamp].answers

\* C3 (as stated): whenever the process is killed, the output on disk is a
\* complete, parseable snapshot.
C3_AtomicSave == pc = "killed" => FilesComplete

\* C3 (amended): as long as no save is under way and none was cut short
\* by the kill, every output file that exists is a complete, parseable
\* snapshot.
C3_CompleteOutsideSave == (~Writing /\ ~killed_writing) => FilesComplete

C3_Witness ==
    /\ pc = "killed"
    /\ ~killed_writing
    /\ \/ \E t \in Timestamps : disk[t].kind \in {"answers", "progress"}
       \/ csv.kind = "progress"

\* C4: the second invocation of benchmark_model or process_csv calls the
\* gateway for no item the first one had completed, and works on the
\* output file the first one worked on.
C4_ResumesAfterRestart ==
    ((IsBenchmark \/ IsProcessCsv) /\ invocation = 2) =>
        /\ \A k \in 1..Len(calls) : calls[k] \notin completed_before
        /\ timestamp \in {0, 1}

\* C5: with a deterministic service, a run that ends, whether or not it
\* was interrupted and started again on the way, leaves the output that
\* one uninterrupted run leaves.
C5_SameAsUninterrupted ==
    pc = "done" =>
        /\ IsBenchmark =>
              disk[timestamp].answers = UninterruptedAnswers(Len(rows))
        /\ IsTranslate => csv = Csv("final", UninterruptedTable)

C5_Witness ==
    /\ IsTranslate
    /\ invocation = 2
    /\ pc = "done"
    /\ Cardinality(completed_before) >= 2
    /\ \E k \in 1..Len(returned) : ~Truthy(returned[k])

\* C6: len(model_answers) <= successful_answers <= total, and
\* successful_translations + failed_translations <= 2 * total_rows, every
\* handled translation being counted once.
C6_Counters ==
    /\ prog = "benchmark_local" =>
          /\ Cardinality(DOMAIN model_answers) <= successful_answers
          /\ successful_answers <= Len(rows)
    /\ IsTranslate =>
          /\ successful_translations + failed_translations <= 2 * Len(rows)
          /\ Running =>
                successful_translations + failed_translations = Handled

C6_Witness ==
    /\ prog = "benchmark_local"
    /\ pc = "done"
    /\ Cardinality(DOMAIN model_answers) < successful_answers
    /\ successful_answers = Len(rows)

\* C7 (as stated): no gateway call is made for a row until every earlier
\* row is through: in translate_dataset, until both its question and its
\* answer have been handled.
C7_RowByRow ==
    /\ IsBenchmark => IsPrefix(calls, EligibleRows)
    /\ (IsTranslate /\ pc = "gateway") =>
          \A j \in 1..(idx - 1) :
              /\ 2 * j - 1 \in Range(SubSeq(calls, 1, Handled))
              /\ 2 * j \in Range(SubSeq(calls, 1, Handled))

\* C7 (amended): calls are made one at a time, each only after the one
\* before has returned and its result has been saved; benchmark_model
\* takes the rows in file order, translate_dataset takes them in batches
\* of two, all the questions of a batch before any of its answers.
C7_OneCallAtATime ==
    /\ IsBenchmark => IsPrefix(calls, EligibleRows)
    /\ IsTranslate => IsPrefix(calls, BatchOrder(0, Len(rows)))
    /\ pc = "gateway" /\ prog # "gateway" =>
          /\ Len(returned) = Len(calls) - 1
          /\ (IsTranslate /\ Len(calls) > 1) => csv = Csv("progress", df)
          /\ (IsBenchmark /\ model_answers # EmptyDict) =>
                disk[timestamp].answers = model_answers

C7_Witness ==
    /\ IsTranslate
    /\ pc = "gateway"
    /\ idx = 2
    /\ phase = "question"
    /\ 2 \notin Range(calls)

\* the attempts a gateway function may make
AttemptBound(fn) ==
    CASE fn = "call_local_llama" -> 2
      [] fn = "translate_text"   -> 3
      [] OTHER                   -> 1

\* the text a gateway function returns for a response body
ResponseText(fn, t) ==
    IF fn = "translate_text" THEN clean_translation_response(Strip(t))
    ELSE Strip(t)

\* C8: a gateway call makes at most its bound of attempts (2 in
\* call_local_llama, 3 in translate_text); while it runs it has attempts
\* left and the next one can be made, so it ends; it makes no attempt after
\* a successful one, returns the text of the successful attempt, and
\* returns None otherwise.
C8_BoundedRetry ==
    /\ Len(gw_log) <= AttemptBound(gw_fn)
    /\ \A k \in 1..(Len(gw_log) - 1) : gw_log[k].kind # "ok"
    /\ pc = "gateway" =>
          /\ Len(gw_log) = gw_attempt
          /\ gw_attempt < AttemptBound(gw_fn)
          /\ AttemptOutcomes # {}
    /\ CallReturned =>
          /\ Last(gw_log).kind = "ok" =>
                gw_result = Some(ResponseText(gw_fn, Last(gw_log).text))
          /\ Last(gw_log).kind # "ok" => gw_result = None

C8_Witness ==
    /\ CallReturned
    /\ gw_fn = "translate_text"
    /\ Len(gw_log) = 3
    /\ gw_log[1].kind # "ok"
    /\ Last(gw_log).kind = "ok"
    /\ ~gw_result.none

\* C9 (as stated): in call_local_llama every timeout or connection error
\* on the first attempt is followed by the 3-second delay and a second
\* attempt, and the call returns None only after both attempts.
C9_TransportFailureRetried ==
    gw_fn = "call_local_llama" =>
        /\ \A k \in 1..Len(gw_log) :
              (gw_log[k].kind \in {"timeout", "connerr"} /\ k < 2) =>
                  /\ gw_log[k].sleep = 3
                  /\ pc = "gateway" \/ Len(gw_log) > k
        /\ (CallReturned /\ gw_result = None
                /\ Last(gw_log).kind \in {"timeout", "connerr"}) =>
              Len(gw_log) = 2

\* C9 (amended): in call_local_llama a timeout on the first attempt is
\* followed by the 3-second delay and a second attempt, and failure after
\* a timeout is reported only once both attempts are made; a connection
\* error ends the call at once, without delay, with None; None is
\* returned before the second attempt only on a connection error or on a
\* response without 'content'.
C9_TimeoutRetried ==
    gw_fn = "call_local_llama" =>
      /\ (CallReturned /\ gw_result = None) =>
            \/ Len(gw_log) = 2
            \/ Last(gw_log).kind \in {"connerr", "nofield"}
      /\ \A k \in 1..Len(gw_log) :
            /\ (gw_log[k].kind = "timeout" /\ k < 2) =>
                  /\ gw_log[k].sleep = 3
                  /\ pc = "gateway" \/ Len(gw_log) > k
            /\ (gw_log[k].kind = "timeout" /\ k = Len(gw_log)
                    /\ pc # "gateway") =>
                  /\ k = 2
                  /\ gw_result = None
            /\ gw_log[k].kind = "connerr" =>
                  /\ gw_log[k].sleep = 0
                  /\ k = Len(gw_log)
                  /\ pc # "gateway"
                  /\ gw_result = None

C9_Witness ==
    /\ gw_fn = "call_local_llama"
    /\ CallReturned
    /\ Len(gw_log) = 2
    /\ gw_log[1].kind = "timeout"
    /\ gw_log[2].kind = "connerr"

\* C10 (as stated): a response that lacks the expected field is never
\* retried: the call returns None at once.
C10_NoRetryOnMissingField ==
    \A k \in 1..Len(gw_log) :
        gw_log[k].kind = "nofield" =>
            /\ gw_log[k].sleep = 0
            /\ k = Len(gw_log)
            /\ pc # "gateway"
            /\ gw_result = None

\* C10 (amended): call_local_llama and call_openrouter return None at once
\* on a response that lacks the expected field; translate_text waits 2
\* seconds and sends the request again, and returns None only when the
\* field is missing on its third attempt.
C10_MissingField ==
    \A k \in 1..Len(gw_log) :
        gw_log[k].kind = "nofield" =>
            IF gw_fn = "translate_text" /\ k < 3
            THEN /\ gw_log[k].sleep = 2
                 /\ pc = "gateway" \/ Len(gw_log) > k
            ELSE /\ gw_log[k].sleep = 0
                 /\ k = Len(gw_log)
                 /\ pc # "gateway"
                 /\ gw_result = None

C10_Witness ==
    /\ gw_fn = "translate_text"
    /\ CallReturned
    /\ Len(gw_log) = 2
    /\ gw_log[1].kind = "nofield"
    /\ gw_log[2].kind = "ok"

\* ------------------------------------------------ the cancellation
\* seeded fault: a signal that comes during a gateway call waits for the
\* call to return and for its result to be stored and saved
Interrupt_deferred ==
    /\ prog \in {"translate", "benchmark_openrouter"}
    /\ pc \in {"loop", "batch", "gateway", "handle", "dump", "sleep",
               "final", "finaldump"}
    /\ signal_at' = pc
    /\ pc' = IF IsTranslate THEN "cancelled" ELSE "raised"
    /\ returned' = IF pc = "gateway"
                   THEN Append(returned, CallResult(gw_fn, svc[CallKey], 0))
                   ELSE returned
    /\ IF Writing /\ IsBenchmark
       THEN \E f \in {Truncated0, Partial} :
                disk' = [disk EXCEPT ![timestamp] = f]
       ELSE UNCHANGED disk
    /\ IF Writing /\ IsTranslate
       THEN \E f \in {CsvEmpty, CsvPartial} : csv' = f
       ELSE UNCHANGED csv
    /\ UNCHANGED <<inputs, tool_memory, free_memory, invocation, completed_before,
                   killed_writing, idx, benchmark_memory, translate_memory,
                   gateway_memory, calls>>

\* seeded fault: no script catches the KeyboardInterrupt
Interrupt_uncaught ==
    /\ prog \in {"translate", "benchmark_openrouter"}
    /\ pc \in {"loop", "batch", "gateway", "handle", "dump", "sleep",
               "final", "finaldump"}
    /\ signal_at' = pc
    /\ pc' = "raised"
    /\ IF Writing /\ IsBenchmark
       THEN \E f \in {Truncated0, Partial} :
                disk' = [disk EXCEPT ![timestamp] = f]
       ELSE UNCHANGED disk
    /\ IF Writing /\ IsTranslate
       THEN \E f \in {CsvEmpty, CsvPartial} : csv' = f
       ELSE UNCHANGED csv
    /\ UNCHANGED <<inputs, tool_memory, free_memory, invocation, completed_before,
                   killed_writing, memory>>

\* SIGINT during the batch run: Python raises KeyboardInterrupt where the
\* script stands (in requests.post, in time.sleep, in the middle of a dump).
\* No `except Exception` or `except RequestException` catches it.
\* process() of translate_finetuning_data.py catches it and returns;
\* benchmark_models.py has no handler and ends with the traceback.  A file
\* open for writing is closed as the exception unwinds, holding the part
\* of the dump written so far.
Interrupt ==
    /\ prog \in {"translate", "benchmark_openrouter"}
    /\ pc \in {"loop", "batch", "gateway", "handle", "dump", "sleep",
               "final", "finaldump"}
    /\ signal_at' = pc
    /\ pc' = IF IsTranslate THEN "cancelled" ELSE "raised"
    /\ IF Writing /\ IsBenchmark
       THEN \E f \in {Truncated0, Partial} :
                disk' = [disk EXCEPT ![timestamp] = f]
       ELSE UNCHANGED disk
    /\ IF Writing /\ IsTranslate
       THEN \E f \in {CsvEmpty, CsvPartial} : csv' = f
       ELSE UNCHANGED csv
    /\ UNCHANGED <<inputs, tool_memory, free_memory, invocation, completed_before,
                   killed_writing, memory>>

InitCancel ==
    /\ \/ InitTranslate
       \/ InitBenchmark /\ prog = "benchmark_openrouter"
    /\ ready

NextCancel ==
    \/ Attempt
    \/ BenchmarkStart
    \/ BenchmarkLoop
    \/ BenchmarkHandle
    \/ BenchmarkDump
    \/ BenchmarkSleep
    \/ BenchmarkFinal
    \/ BenchmarkFinalDump
    \/ TranslateStart
    \/ TranslateBatch
    \/ TranslateHandle
    \/ TranslateDump
    \/ TranslateSleep
    \/ TranslateFinal
    \/ TranslateFinalDump
    \/ Interrupt

SpecCancel == InitCancel /\ [][NextCancel]_vars

\* ------------------------------------------------------------------
\* the requests sent so far for row k
RequestsFor(k) == Cardinality({j \in 1..Len(calls) : calls[j] = k})
\* no output file has been created
NoOutput == \A t \in Timestamps : disk[t] = Absent

Selected == pc \in {"dump", "sleep"} /\ idx = 1 /\ calls = <<1>>
\* what the selector returned for it
Selection == IF 1 \in DOMAIN model_answers THEN model_answers[1] ELSE "None"

\* a letter A-D (either case) at p with no word character on either side
StandaloneLetter(t, p) ==
    /\ IsOptionLetter(CharAt(t, p))
    /\ ~IsWord(CharAt(t, p - 1))
    /\ ~IsWord(CharAt(t, p + 1))
\* rule 1: the letter at the very start of the text
Rule1(t) ==
    IF StandaloneLetter(Strip(t), 1) THEN Upper(Strip(t)[1]) ELSE "None"
\* rule 2: the labelled patterns, in the order of the list
Rule2(t) ==
    IF Search(1, t) # 0 THEN Upper(t[Search(1, t)])
    ELSE IF Search(2, t) # 0 THEN Upper(t[Search(2, t)])
    ELSE IF Search(3, t) # 0 THEN Upper(t[Search(3, t)])
    ELSE IF Search(4, t) # 0 THEN Upper(t[Search(4, t)])
    ELSE "None"
\* rule 3: the first standalone letter of the text
Rule3(t) ==
    LET at == {p \in 1..Len(t) : StandaloneLetter(t, p)}
    IN  IF at = {} THEN "None"
        ELSE Upper(t[CHOOSE p \in at : \A q \in at : p <= q])
\* rule 4: the first standalone lower-case letter
Rule4(t) ==
    LET at == {p \in 1..Len(t) :
                  StandaloneLetter(t, p) /\ t[p] \in {"a", "b", "c", "d"}}
    IN  IF at = {} THEN "None"
        ELSE Upper(t[CHOOSE p \in at : \A q \in at : p <= q])
FirstRule(t) ==
    IF Rule1(t) # "None" THEN Rule1(t)
    ELSE IF Rule2(t) # "None" THEN Rule2(t)
    ELSE IF Rule3(t) # "None" THEN Rule3(t)
    ELSE Rule4(t)

\* C12: extract_answer_letter returns the upper-cased letter of the first
\* of its rules that matches (letter at the start, labelled pattern, first
\* standalone letter, lower-case fallback) and fails exactly when none
\* does; "B" gives B, "The answer is C because..." gives C, "I think it's
\* d" gives D, a text without a letter fails, and the result is always one
\* of A, B, C, D or the failure.
C12_ExtractByPriority ==
    (prog = "benchmark_local" /\ Selected) =>
        LET t == gw_result.text
        IN  /\ Selection = FirstRule(t)
            /\ Selection \in {"A", "B", "C", "D", "None"}
            /\ t = TextB => Selection = "B"
            /\ t = TextAnswerIsC => Selection = "C"
            /\ t = TextThinkD => Selection = "D"
            /\ t = TextNoLetter => Selection = "None"
            /\ (\A p \in 1..Len(t) : ~IsOptionLetter(t[p]))
                  => Selection = "None"

\* a response in which a standalone letter precedes a labelled one has
\* been handled: the labelled letter was chosen
C12_Witness ==
    /\ prog = "benchmark_local"
    /\ Selected
    /\ Rule1(gw_result.text) = "None"
    /\ Rule2(gw_result.text) = "B"
    /\ Rule3(gw_result.text) = "D"
    /\ Selection = "B"

\* C13: get_model_answer of benchmark_models.py returns the option letter
\* the response names: B for "B", C for "The answer is C because...", D for
\* "I think it's d", and the failure for a response without any letter A-D
\* in either case.
C13_NamesTheLetter ==
    (prog = "benchmark_openrouter" /\ Selected) =>
        LET t == gw_result.text
        IN  /\ t = TextB => Selection = "B"
            /\ t = TextAnswerIsC => Selection = "C"
            /\ t = TextThinkD => Selection = "D"
            /\ (\A p \in 1..Len(t) : ~IsOptionLetter(t[p]))
                  => Selection = "None"

\* ------------------------------------------------------------------
\* the evaluation has no binary-correctness line that can be parsed: no
\* line starts with 'binary correctness', or the first that does has no ':'
Unparsable(t) ==
    LET lines == SplitLines(t)
        label == <<"b","i","n","a","r","y"," ","c","o","r","r","e","c","t",
                   "n","e","s","s">>
        starts == {k \in 1..Len(lines) : MatchLit(lines[k], 1, label) # 0}
    IN  \/ starts = {}
        \/ ~Contains(lines[CHOOSE k \in starts : \A j \in starts : k <= j],
                     ":")

\* C14: a parse failure of the evaluator's response is never fatal and
\* defaults to the sentinel: an answered item whose evaluation has no
\* binary-correctness line that can be parsed is recorded with
\* binary_correct = 0, and the batch goes on to its end.
C14_ParseFailureDefaults ==
    (prog = "free_openrouter" /\ pc = "done") =>
        \A k \in 1..Len(rows) :
            (/\ svc[k][1].kind = "ok"
             /\ svc[k][2].kind = "ok"
             /\ Unparsable(svc[k][2].text))
                => /\ rows[k] \in DOMAIN questions
                   /\ questions[rows[k]].binary_correct = 0

\* ------------------------------------------------------------------
\* the run has been stopped by the signal
Stopped == pc \in {"cancelled", "raised"}
\* the calls whose result had been handled and saved when the signal came
Completed ==
    IF signal_at \in {"gateway", "handle", "dump"} THEN Len(calls) - 1
    ELSE Len(calls)
\* the output file as the per-item saves leave it after n calls
SavedCsv(n) ==
    IF n = 0 THEN CsvAbsent ELSE Csv("progress", TableAfter(n))
SavedJson(n) ==
    IF AnswersAfter(n) = EmptyDict THEN Absent
    ELSE File("answers", 0, AnswersAfter(n), 0, 0, NoEvaluation)
\* the output on disk holds the result of every item completed before the
\* signal
HoldsCompleted ==
    IF IsTranslate THEN csv = SavedCsv(Completed)
    ELSE disk[timestamp] = SavedJson(Completed)

\* C15 (as stated): on KeyboardInterrupt during a batch run the driver
\* returns without raising an error, and the output on disk holds the
\* result of every item completed before the signal.
C15_CancelledCleanly == Stopped => (pc = "cancelled" /\ HoldsCompleted)

\* C15 (amended): on KeyboardInterrupt during the batch run
\* translate_finetuning_data.py returns without raising an error, while
\* benchmark_models.py, which catches only Exception, ends with the
\* KeyboardInterrupt raised.  In both, when the signal comes outside a
\* save the output on disk holds the result of every item completed before
\* it; when it comes in the middle of a save the output file is left empty
\* or cut short.
C15_Cancelled ==
    Stopped =>
        /\ IsTranslate <=> pc = "cancelled"
        /\ signal_at \notin {"dump", "finaldump"} => HoldsCompleted
        /\ signal_at \in {"dump", "finaldump"} =>
              IF IsTranslate THEN csv.kind \in {"empty", "partial"}
              ELSE disk[timestamp].kind \in {"empty", "partial"}

\* the translator has been cancelled during a delay, two results saved
C15_Witness ==
    /\ pc = "cancelled"
    /\ signal_at = "sleep"
    /\ Completed = 2
    /\ csv = Csv("progress", TableAfter(2))

\* C16 (as stated): cancellation is honoured only between items: when the
\* signal comes while a gateway call is in flight the call is not aborted;
\* it returns, its item is finished and saved, and only then does the
\* driver stop.
C16_OnlyBetweenItems ==
    (Stopped /\ signal_at = "gateway") =>
        /\ Len(returned) = Len(calls)
        /\ IF IsTranslate THEN csv = SavedCsv(Len(calls))
           ELSE disk[timestamp] = SavedJson(Len(calls))

\* C16 (amended): cancellation is honoured at once: when the signal comes
\* while a gateway call is in flight the call is aborted; it never returns,
\* its item is neither finished nor saved, the output on disk stays as the
\* last save left it, and the driver stops there.
C16_AbortsInFlight ==
    (Stopped /\ signal_at = "gateway") =>
        /\ Len(returned) = Len(calls) - 1
        /\ HoldsCompleted
        /\ IsTranslate => \/ df[idx].question_english = <<>>
                          \/ df[idx].model_answer_english = <<>>
        /\ IsBenchmark => rows[idx] \notin DOMAIN model_answers
                             \/ \E k \in 1..(Len(calls) - 1) :
                                    rows[calls[k]] = rows[idx]

\* the signal has come during the second attempt of a translation
C16_Witness ==
    /\ pc = "cancelled"
    /\ signal_at = "gateway"
    /\ gw_attempt = 1
    /\ Len(calls) = 2

\* ------------------------------------------------------------------
\* the driver is about to send the first request of the row at hand
AboutToRequest ==
    \/ prog = "free_rag" /\ pc = "context"
    \/ prog = "free_openrouter" /\ pc = "answer" /\ api_key
    \/ prog = "free_local" /\ pc = "answer"

\* the gateway was called for the row before it (with its context, in
\* free_rag, at hand)
PreviousCalledGateway ==
    /\ idx > 1
    /\ prog = "free_local" \/ api_key
    /\ prog = "free_rag" => svc[idx - 1][1].kind = "ok"

\* C17: between the last gateway call of one item and the first request
\* sent for the next item the driver has always waited its rate-limit
\* delay, whatever path the loop body took: also when the item failed,
\* raised an exception or was skipped.
C17_DelayBetweenItems ==
    (IsFree /\ AboutToRequest /\ PreviousCalledGateway) => slept

\* the per-item results the run holds in memory
Recorded == IF IsFree THEN questions ELSE model_answers
\* the final output carries counts or an accuracy
HasCountsOrAccuracy(f) ==
    f.metrics \cap {"evaluation", "accuracy", "successful_responses",
                    "total_questions", "success_rate"} # {}

\* C18: once the loop has gone through every item the driver makes one
\* final write; the last per-item save held every result recorded, the
\* final output holds the same results, and with them the aggregate
\* figures: counts or accuracy, and the elapsed time.
C18_FinalWrite ==
    (IsFree \/ IsBenchmark) =>
        /\ (pc = "final" /\ Parseable(disk[timestamp])) =>
              disk[timestamp].answers = Recorded
        /\ pc = "done" =>
              /\ disk[timestamp].kind = "final"
              /\ disk[timestamp].answers = Recorded
              /\ "processing_time_seconds" \in disk[timestamp].metrics
              /\ HasCountsOrAccuracy(disk[timestamp])

\* the request in flight can return
CallCanReturn == \E met \in AttemptOutcomes : ~Blocks(gw_fn, met)

\* C19: every network call of the gateway is a wait bounded by a fixed
\* timeout: whatever the service does, even if it never answers, a call
\* in flight returns, so that the run can go on to its final write.
C19_CallsReturn ==
    pc = "gateway" => CallCanReturn

\* C19, as the claim words it: the run reaches its final write
C19_ReachesFinalWrite == <>(pc = "done")

\* the row a call was made for
RowOfCall(c) == IF IsTranslate THEN (c + 1) \div 2 ELSE c
CalledRows == {RowOfCall(calls[k]) : k \in 1..Len(calls)}

\* C20: started with --test, a script works on the first 10 rows at most
\* and issues no gateway call for a later row; started without it, the
\* script works through its whole input.
C20_TestSample ==
    /\ args_test => \A r \in CalledRows : r <= TestHead
    /\ (~args_test /\ pc = "done") => CalledRows = 1..Len(rows)

\* ------------------------------------------------------------ claims

\* the digits that follow the first non-digits of t
RECURSIVE FirstNumber(_)
FirstNumber(t) ==
    IF t = <<>> THEN <<>>
    ELSE IF Head(t) \notin Digits THEN FirstNumber(Tail(t))
    ELSE LET stop == IF \E i \in 1..Len(t) : t[i] \notin Digits
                     THEN (CHOOSE i \in 1..Len(t) :
                              /\ t[i] \notin Digits
                              /\ \A j \in 1..(i - 1) : t[j] \in Digits) - 1
                     ELSE Len(t)
         IN  SubSeq(t, 1, stop)

\* the score the evaluator stated: the number that follows the label of
\* the first line starting with 'binary correctness'
StatedScore(text) ==
    LET lines == SplitLines(text)
        label == <<"b","i","n","a","r","y"," ","c","o","r","r","e","c","t",
                   "n","e","s","s">>
        hits == {k \in 1..Len(lines) : MatchLit(lines[k], 1, label) # 0}
        line == lines[CHOOSE k \in hits : \A j \in hits : k <= j]
    IN  IF hits = {} THEN <<>>
        ELSE FirstNumber(SubSeq(line, Len(label) + 1, Len(line)))

\* C21: the flag recorded for a question is the score the evaluator
\* stated: 1 if and only if the score on the first 'Binary Correctness'
\* line is 1, whatever the explanation after it holds; it is 0 or 1.
C21_FlagIsStatedScore ==
    IsFree =>
        \A q \in DOMAIN questions :
            /\ questions[q].binary_correct \in {0, 1}
            /\ questions[q].binary_correct = 1
                  <=> StatedScore(questions[q].evaluation) = <<"1">>

\* t begins with one of the prefixes of the list, whatever the case
BeginsWithPrefix(t) ==
    \E k \in 1..Len(prefixes_to_remove) : StartsWithCI(t, prefixes_to_remove[k])

\* C22: what clean_translation_response returns begins with none of the
\* prefixes of its list, and cleaning it once more changes nothing.
C22_PrefixFree ==
    IsTranslate =>
        \A k \in 1..Len(returned) :
            ~returned[k].none =>
                /\ ~BeginsWithPrefix(returned[k].text)
                /\ clean_translation_response(returned[k].text)
                       = returned[k].text

\* the English field of the row and column at hand
FieldAtHand(table) ==
    IF phase = "question" THEN table[idx].question_english
    ELSE table[idx].model_answer_english
OriginalAtHand ==
    IF phase = "question" THEN source_question(idx) ELSE source_answer(idx)

\* C23: translate_dataset masks every failed translation by the original
\* text: the handling of a completed translate_text call adds one to
\* exactly one of the two counters; the field holds the cleaned
\* translation when the call is counted a success and the original text
\* when it is counted a failure, and it is not left empty.
C23_FailureMasked ==
    [][(IsTranslate /\ pc = "handle" /\ pc' = "dump") =>
          /\ \/ /\ successful_translations' = successful_translations + 1
                /\ failed_translations' = failed_translations
                /\ ~returned[Len(returned)].none
                /\ FieldAtHand(df') = returned[Len(returned)].text
             \/ /\ successful_translations' = successful_translations
                /\ failed_translations' = failed_translations + 1
                /\ FieldAtHand(df') = OriginalAtHand
          /\ OriginalAtHand # <<>> => FieldAtHand(df') # <<>>]_vars

\* a failed call has been handled and the field holds the original
C23_Witness ==
    /\ IsTranslate
    /\ pc = "dump"
    /\ ~Truthy(returned[Len(returned)])
    /\ failed_translations > 0
    /\ successful_translations > 0
    /\ FieldAtHand(df) = OriginalAtHand

Columns == {"A", "B", "C", "D"}
\* the columns of new hold the cells of old in some order
IsPermutation(new, old) ==
    \E f \in [Columns -> Columns] :
        /\ \A c, d \in Columns : f[c] = f[d] => c = d
        /\ \A c \in Columns : new[c] = old[f[c]]
\* no later row carries the id of row k
LastOfItsId(k) == \A j \in (k + 1)..Len(rows) : rows[j] # rows[k]

\* C24 (as stated): every written row is a permutation of its four
\* options with the original answer of column A at the position recorded
\* for the row's id; the position is one of A to D and every id has one.
C24_RecordedPosition ==
    (IsRandomize /\ pc = "done") =>
        \A k \in 1..Len(rows) :
            /\ IsPermutation(csv.table[k], InputRow(k))
            /\ rows[k] \in DOMAIN correct_answers
            /\ correct_answers[rows[k]] \in Columns
            /\ csv.table[k][correct_answers[rows[k]]] = Cell(k, "A")

\* C24 (amended): the same, the original answer standing at the recorded
\* position in every row whose id no later row repeats.
C24_LastRowOfId ==
    (IsRandomize /\ pc = "done") =>
        \A k \in 1..Len(rows) :
            /\ IsPermutation(csv.table[k], InputRow(k))
            /\ rows[k] \in DOMAIN correct_answers
            /\ correct_answers[rows[k]] \in Columns
            /\ LastOfItsId(k) =>
                  csv.table[k][correct_answers[rows[k]]] = Cell(k, "A")

\* two rows of different ids, the answers of both moved off column A
C24_Witness ==
    /\ IsRandomize
    /\ pc = "done"
    /\ Len(rows) > 1
    /\ \A k \in 1..Len(rows) :
          /\ LastOfItsId(k)
          /\ correct_answers[rows[k]] # "A"
          /\ csv.table[k][correct_answers[rows[k]]] = Cell(k, "A")

\* C25: process_answers_for_finetuning leaves the first occurrence of
\* every question unchanged and rewrites every later duplicate: with the
\* paraphrase of the API when OpenRouter is used, with the prefix
\* 'Rephrased: ' when it is not; the question_id values are 1..N in order.
C25_DuplicatesRewritten ==
    (IsPrepare /\ pc = "done") =>
        /\ Len(csv.table) = Len(loaded)
        /\ \A k \in 1..Len(loaded) :
              /\ csv.table[k].question_id = k
              /\ k \notin LaterDuplicates(loaded) =>
                    csv.table[k].question = loaded[k]
              /\ k \in LaterDuplicates(loaded) =>
                    IF use_openrouter
                    THEN csv.table[k].question
                            \in {TextPlain, Rephrased(loaded[k])}
                    ELSE csv.table[k].question = Rephrased(loaded[k])

\* C26: generate_embeddings returns one embedding per chunk, in chunk
\* order, whatever encode does, a CUDA out-of-memory error with its
\* reduction of the batch size included.
C26_OneEmbeddingPerChunk ==
    (IsEmbed /\ pc = "done") =>
        /\ Len(all_embeddings) = Len(texts)
        /\ \A i \in 1..Len(texts) : all_embeddings[i] = texts[i]

\* C27: in store_in_chroma a batch that has been upserted stays in the
\* collection until the outermost call returns, the fallback on the two
\* halves of a failed batch removing nothing that was stored before; and
\* the success_count reported is the number of chunks upserted.
C27_StoredStays ==
    IsStore =>
        /\ stored_ever \subseteq collection
        /\ pc = "done" => reported = Cardinality(stored_ever)

\* the reference ids answered as the reference says
AnsweredRight ==
    {q \in DOMAIN correct_answers :
        q \in DOMAIN model_answers /\ model_answers[q] = correct_answers[q]}

\* C28: evaluate_model counts as correct the reference ids whose recorded
\* answer is the reference letter and no other; the count lies between 0
\* and the smaller of the number of recorded answers and total_questions,
\* which is the size of the reference; accuracy is 0 for an empty
\* reference.
C28_Evaluation ==
    (IsBenchmark /\ pc = "done") =>
        LET evaluation == disk[timestamp].evaluation
        IN  /\ evaluation.total_questions = Cardinality(DOMAIN correct_answers)
            /\ evaluation.correct_answers = Cardinality(AnsweredRight)
            /\ 0 <= evaluation.correct_answers
            /\ evaluation.correct_answers
                  <= Min(Cardinality(DOMAIN model_answers),
                         evaluation.total_questions)
            /\ correct_answers = EmptyDict =>
                  evaluation.accuracy = Quotient(0, 1)
            /\ correct_answers # EmptyDict =>
                  evaluation.accuracy =
                      Quotient(100 * Cardinality(AnsweredRight),
                               Cardinality(DOMAIN correct_answers))

\* a reference id without a recorded answer beside one answered right
C28_Witness ==
    /\ IsBenchmark
    /\ pc = "done"
    /\ AnsweredRight # {}
    /\ \E q \in DOMAIN correct_answers : q \notin DOMAIN model_answers
    /\ disk[timestamp].evaluation.correct_answers = 1

\* C29: summarize_answer returns at most 200 characters, whatever the
\* question, the answer and the outcome of the gateway call.
C29_AtMost200 ==
    (IsSummarize /\ pc = "done") => Len(summary) <= 200

\* C30: split_by_fixed_size terminates for every text, every chunk_size > 0
\* and every overlap >= 0: each pass of its loop leaves the start position
\* strictly greater than it found it, and every chunk appended is a
\* non-empty part of the text.
C30_StartIncreases ==
    [][(IsSplit /\ pc = "loop" /\ pc' = "loop")
          => /\ start' > start
             /\ \A k \in 1..Len(chunks') :
                   /\ chunks'[k] # <<>>
                   /\ \E lo \in 0..Len(split_text), hi \in 0..Len(split_text) :
                         chunks'[k] = Slice(split_text, lo, hi)]_vars

====
